---- MODULE Spec2Model ----
(***************************************************************************)
(* A model of FastNodeREST (src/index.js): the route tree compiler         *)
(* (parseRoutes / addRoute / start) and the authentication cascade         *)
(* (auth / authUserOnly / authServiceOnly over verifyToken and the         *)
(* issue*Token methods).                                                   *)
(*                                                                         *)
(* Strings that take part in path arithmetic are sequences of atoms: the   *)
(* atom "/" is the path separator, every other atom is a separator-free    *)
(* piece of text.  Method names are sequences of single characters so that *)
(* toLowerCase() is computed character by character.                       *)
(***************************************************************************)
EXTENDS Integers, Sequences, FiniteSets, TLC

VARIABLES
    config,          \* this.config
    app,             \* this.app
    serverInstance,  \* this.serverInstance
    phase,           \* how far start() / stop() have got
    startError,      \* the error start() threw or rejected with
    served,          \* the handler the last dispatched request reached
    now,             \* the clock, Math.floor(Date.now() / 1000) in ticks
    stage,           \* where the request in flight is
    req,             \* the request in flight
    res,             \* its response
    nextCalled,      \* whether a middleware passed it on with next()
    nextCalls,       \* how many times its middleware called next()
    verified,        \* the verifyToken calls made for it: <<token source, secret>>
    revokedTokens,   \* the example application's deny-list of refresh tokens
    call,            \* the last call of an issue*Token method and its outcome
    check,           \* the last call of verifyToken and its outcome
    exchange,        \* a request on its way through a compiled binding
    inflight         \* the requests in flight at once, one per connection

routeVars == <<config, app, serverInstance, phase, startError, served>>

requestVars == <<now, stage, req, res, nextCalled, nextCalls, verified, revokedTokens>>

callVars == <<call, check>>

pipeVars == <<exchange, inflight>>

vars == <<config, app, serverInstance, phase, startError, served,
          now, stage, req, res, nextCalled, nextCalls, verified, revokedTokens, call, check,
          exchange, inflight>>

(***************************************************************************)
(* Bounds of the model.                                                    *)
(***************************************************************************)
\* the largest number of nodes (values under a key) a declared route tree has
MaxNodes == 3

\* the last tick of the clock
MaxTime == 2

\* the largest number of refresh tokens the deny-list holds
MaxRevoked == 1

\* the largest number of middlewares a leaf declares
MaxMiddlewares == 2

(***************************************************************************)
(* Path strings.                                                           *)
(***************************************************************************)
Slash == "/"

\* String.prototype.replace(/\/+/g, '/'): every run of separators becomes one
RECURSIVE CollapseSlashes(_)
CollapseSlashes(s) ==
    IF Len(s) <= 1 THEN s
    ELSE IF s[1] = Slash /\ s[2] = Slash
         THEN CollapseSlashes(Tail(s))
         ELSE <<s[1]>> \o CollapseSlashes(Tail(s))

(***************************************************************************)
(* Method names and String.prototype.toLowerCase().                        *)
(***************************************************************************)
LowerChar(c) ==
    CASE c = "G" -> "g" [] c = "E" -> "e" [] c = "T" -> "t" [] c = "P" -> "p"
      [] c = "U" -> "u" [] c = "O" -> "o" [] c = "S" -> "s" [] c = "H" -> "h"
      [] c = "A" -> "a" [] c = "D" -> "d" [] OTHER -> c

toLowerCase(s) == [i \in DOMAIN s |-> LowerChar(s[i])]

M_get    == <<"g", "e", "t">>
M_post   == <<"p", "o", "s", "t">>
M_put    == <<"p", "u", "t">>
M_delete == <<"d", "e", "l", "e", "t", "e">>
M_patch  == <<"p", "a", "t", "c", "h">>
M_Get    == <<"G", "e", "t">>
M_head   == <<"h", "e", "a", "d">>

\* addRoute: const validMethods = ['get', 'post', 'put', 'delete', 'patch']
validMethods == {M_get, M_post, M_put, M_delete, M_patch}

(***************************************************************************)
(* Route declarations.  A value under a key is null, a primitive, or an    *)
(* object.  An object has own attributes among method / handler /          *)
(* middlewares (own says which keys it carries) and further keyed          *)
(* children (kids, in insertion order).                                    *)
(***************************************************************************)
HandlerFns == {"h1", "h2"}

NoKids == <<>>

NullNode == [t |-> "null", own |-> {}, method |-> <<>>, handler |-> "none",
             middlewares |-> <<>>, kids |-> NoKids]

PrimNode == [t |-> "prim", own |-> {}, method |-> <<>>, handler |-> "none",
             middlewares |-> <<>>, kids |-> NoKids]

\* a function value (typeof value === 'function')
FnNode == [t |-> "fn", own |-> {}, method |-> <<>>, handler |-> "none",
           middlewares |-> <<>>, kids |-> NoKids]

ObjNode(own, method, handler, middlewares, kids) ==
    [t |-> "obj", own |-> own, method |-> method, handler |-> handler,
     middlewares |-> middlewares, kids |-> kids]

\* the values a declaration puts under a key, before children are added to it
DeclaredValues ==
    { NullNode,
      PrimNode,
      ObjNode({}, <<>>, "none", <<>>, NoKids),
      ObjNode({"method", "handler", "middlewares"}, M_Get, "h1", <<"m1", "m2">>, NoKids),
      ObjNode({"handler"}, <<>>, "h2", <<>>, NoKids),
      ObjNode({"method", "handler"}, M_head, "h1", <<>>, NoKids),
      ObjNode({"method", "handler"}, M_put, "notfn", <<>>, NoKids),
      ObjNode({"method"}, M_get, "none", <<>>, NoKids) }

Keys == { <<"a">>, <<Slash, "b">> }

Prefixes == { <<>>, <<Slash, "v1", Slash>> }

Ports == {3000, 0}

KeysOf(entries) == {entries[i].key : i \in DOMAIN entries}

\* the number of values declared under node, at any depth
RECURSIVE Size(_)
Size(node) ==
    LET RECURSIVE Sum(_)
        Sum(i) == IF i = 0 THEN 0 ELSE 1 + Size(node.kids[i].val) + Sum(i - 1)
    IN Sum(Len(node.kids))

\* the positions (sequences of child indices) of the objects inside node
RECURSIVE ObjPaths(_)
ObjPaths(node) ==
    IF node.t # "obj" THEN {}
    ELSE {<<>>} \cup
         UNION { { <<i>> \o p : p \in ObjPaths(node.kids[i].val) } : i \in DOMAIN node.kids }

RECURSIVE NodeAt(_, _)
NodeAt(node, p) == IF p = <<>> THEN node ELSE NodeAt(node.kids[p[1]].val, Tail(p))

\* obj[key] = val on the object at position p: a new key goes last
RECURSIVE InsertAt(_, _, _)
InsertAt(node, p, entry) ==
    IF p = <<>> THEN [node EXCEPT !.kids = Append(@, entry)]
    ELSE [node EXCEPT !.kids[p[1]].val = InsertAt(@, Tail(p), entry)]

(***************************************************************************)
(* The route tree compiler.  app is the ordered list of bindings the       *)
(* Express application holds; a call that throws is a result with          *)
(* thrown = TRUE and the bindings registered before the throw.             *)
(***************************************************************************)
NoError == "none"

Returned(bindings) == [thrown |-> FALSE, error |-> NoError, app |-> bindings]

Thrown(msg, bindings) == [thrown |-> TRUE, error |-> msg, app |-> bindings]

CompileErrors == {"Handler must be a function for route", "Invalid method",
                  "Invalid route configuration at path"}

\* addRoute as it would be if the prefix were glued on without collapsing the
\* separators where prefix and path meet
addRoute_PrefixNotCollapsed(prefix, path, route, bindings) ==
    LET method      == IF "method" \in route.own THEN route.method ELSE M_post
        handler     == route.handler
        middlewares == IF "middlewares" \in route.own THEN route.middlewares ELSE <<>>
        normalizedMethod == toLowerCase(method)
        fullPath    == prefix \o path
    IN  IF handler \notin HandlerFns
        THEN Thrown("Handler must be a function for route", bindings)
        ELSE IF normalizedMethod \notin validMethods
        THEN Thrown("Invalid method", bindings)
        ELSE Returned(Append(bindings,
                 [method |-> normalizedMethod, path |-> fullPath,
                  middlewares |-> middlewares, handler |-> handler]))

\* addRoute as it would be without the check of the method
addRoute_NoMethodCheck(prefix, path, route, bindings) ==
    LET method      == IF "method" \in route.own THEN route.method ELSE M_post
        handler     == route.handler
        middlewares == IF "middlewares" \in route.own THEN route.middlewares ELSE <<>>
        normalizedMethod == toLowerCase(method)
        fullPath    == CollapseSlashes(prefix \o path)
    IN  IF handler \notin HandlerFns
        THEN Thrown("Handler must be a function for route", bindings)
        ELSE Returned(Append(bindings,
                 [method |-> normalizedMethod, path |-> fullPath,
                  middlewares |-> middlewares, handler |-> handler]))

\* addRoute as it would be if it registered the middlewares last to first
addRoute_MiddlewaresReversed(prefix, path, route, bindings) ==
    LET method      == IF "method" \in route.own THEN route.method ELSE M_post
        handler     == route.handler
        middlewares == IF "middlewares" \in route.own THEN route.middlewares ELSE <<>>
        reversed    == [i \in 1..Len(middlewares) |-> middlewares[Len(middlewares) + 1 - i]]
        normalizedMethod == toLowerCase(method)
        fullPath    == CollapseSlashes(prefix \o path)
    IN  IF handler \notin HandlerFns
        THEN Thrown("Handler must be a function for route", bindings)
        ELSE IF normalizedMethod \notin validMethods
        THEN Thrown("Invalid method", bindings)
        ELSE Returned(Append(bindings,
                 [method |-> normalizedMethod, path |-> fullPath,
                  middlewares |-> reversed, handler |-> handler]))

\* addRoute(path, config), with this.config.prefix = prefix and this.app = bindings
addRoute(prefix, path, route, bindings) ==
    LET method      == IF "method" \in route.own THEN route.method ELSE M_post
        handler     == route.handler
        middlewares == IF "middlewares" \in route.own THEN route.middlewares ELSE <<>>
        normalizedMethod == toLowerCase(method)
        fullPath    == CollapseSlashes(prefix \o path)
    IN  IF handler \notin HandlerFns
        THEN Thrown("Handler must be a function for route", bindings)
        ELSE IF normalizedMethod \notin validMethods
        THEN Thrown("Invalid method", bindings)
        ELSE Returned(Append(bindings,
                 [method |-> normalizedMethod, path |-> fullPath,
                  middlewares |-> middlewares, handler |-> handler]))

\* Object.entries(routes): the object's own keys in insertion order, the
\* attributes it carries included (a method is a string, middlewares an array
\* of functions)
ObjectEntries(node) ==
    (IF "method" \in node.own
     THEN <<[key |-> <<"method">>, val |-> PrimNode]>> ELSE <<>>)
    \o (IF "handler" \in node.own
        THEN <<[key |-> <<"handler">>,
                val |-> IF node.handler \in HandlerFns THEN FnNode ELSE PrimNode]>>
        ELSE <<>>)
    \o (IF "middlewares" \in node.own
        THEN <<[key |-> <<"middlewares">>,
                val |-> ObjNode({}, <<>>, "none", <<>>,
                                [i \in DOMAIN node.middlewares |->
                                    [key |-> <<"0">>, val |-> FnNode]])]>>
        ELSE <<>>)
    \o node.kids

\* parseRoutes as it would be if the return after addRoute ended the loop
RECURSIVE parseEntries_StopsAtFirstLeaf(_, _, _, _)
parseEntries_StopsAtFirstLeaf(prefix, entries, basePath, acc) ==
    IF entries = <<>> THEN acc
    ELSE LET key     == Head(entries).key
             route   == Head(entries).val
             newPath == CollapseSlashes(basePath \o <<Slash>> \o key)
             isLeaf  == route.t = "obj" /\ "handler" \in route.own
             step    == IF route.t # "obj"
                        THEN Thrown("Invalid route configuration at path", acc.app)
                        ELSE IF "handler" \in route.own
                        THEN addRoute(prefix, newPath, route, acc.app)
                        ELSE parseEntries_StopsAtFirstLeaf(prefix, ObjectEntries(route),
                                                           newPath, acc)
         IN  IF step.thrown \/ isLeaf THEN step
             ELSE parseEntries_StopsAtFirstLeaf(prefix, Tail(entries), basePath, step)

\* parseRoutes as it would be if it went through the entries last to first
RECURSIVE parseEntries_LastFirst(_, _, _, _)
parseEntries_LastFirst(prefix, entries, basePath, acc) ==
    IF entries = <<>> THEN acc
    ELSE LET last    == entries[Len(entries)]
             key     == last.key
             route   == last.val
             newPath == CollapseSlashes(basePath \o <<Slash>> \o key)
             step    == IF route.t # "obj"
                        THEN Thrown("Invalid route configuration at path", acc.app)
                        ELSE IF "handler" \in route.own
                        THEN addRoute(prefix, newPath, route, acc.app)
                        ELSE parseEntries_LastFirst(prefix, ObjectEntries(route), newPath, acc)
         IN  IF step.thrown THEN step
             ELSE parseEntries_LastFirst(prefix, SubSeq(entries, 1, Len(entries) - 1),
                                         basePath, step)

\* parseRoutes(routes, basePath): entries is what is left of Object.entries(routes),
\* acc the result so far; an exception ends the whole traversal
RECURSIVE parseEntries(_, _, _, _)
parseEntries(prefix, entries, basePath, acc) ==
    IF entries = <<>> THEN acc
    ELSE LET key     == Head(entries).key
             route   == Head(entries).val
             newPath == CollapseSlashes(basePath \o <<Slash>> \o key)
             step    == IF route.t # "obj"
                        THEN Thrown("Invalid route configuration at path", acc.app)
                        ELSE IF "handler" \in route.own
                        THEN addRoute(prefix, newPath, route, acc.app)
                        ELSE parseEntries(prefix, ObjectEntries(route), newPath, acc)
         IN  IF step.thrown THEN step
             ELSE parseEntries(prefix, Tail(entries), basePath, step)

parseRoutes(prefix, routes, basePath) ==
    parseEntries(prefix, ObjectEntries(routes), basePath, Returned(<<>>))

\* validateConfig(): the routes of the model are always an object
validateConfig(cfg) ==
    IF cfg.port = 0 THEN Thrown("Port must be a valid number", <<>>)
    ELSE IF cfg.routes.t # "obj" THEN Thrown("Routes must be an object", <<>>)
    ELSE Returned(<<>>)

(***************************************************************************)
(* Tokens.  A JSON Web Token is its payload and the secret it was signed   *)
(* with; a string that is no token at all is Malformed.  The clock counts  *)
(* ticks, and an expiresIn is a number of ticks.                           *)
(***************************************************************************)
NullSecret == "null"

Secrets == {NullSecret, "k1", "k2"}

\* a key no secret of the server equals
ForeignKey == "kx"

\* subject ids; 0 stands for an absent (falsy) id
Users == {1, 2}

NoUserId == 0

ServiceNames == {"billing"}

NoServiceName == ""

\* what verifyToken returns for null: every claim read from it is undefined
NullPayload == [user_id |-> NoUserId, service |-> NoServiceName, type |-> "null",
                iat |-> 0, exp |-> 0]

Jwt(payload, secret) == [sig |-> secret, payload |-> payload]

Malformed   == [sig |-> "malformed", payload |-> NullPayload]

\* the empty string, and undefined: the two falsy values a token can be
EmptyString == [sig |-> "empty", payload |-> NullPayload]

Undefined   == [sig |-> "undefined", payload |-> NullPayload]

Truthy(token) == token # EmptyString /\ token # Undefined

\* a token jwt.verify refuses with an error of another name than the two
\* verifyToken expects, as a token whose nbf claim lies in the future
NotYetValid == [sig |-> "notbefore", payload |-> NullPayload]

\* additionalPayload: the claims it sets override the ones spread before it
NoExtra == [sets |-> {}, user_id |-> NoUserId, service |-> NoServiceName, type |-> "null"]

Extras == { NoExtra,
            [sets |-> {"user_id"}, user_id |-> NoUserId, service |-> NoServiceName,
             type |-> "null"] }

\* additional payloads that name the claims the issue methods set themselves
OverridingExtras ==
    { [sets |-> {"type"}, user_id |-> NoUserId, service |-> NoServiceName,
       type |-> "refresh"],
      [sets |-> {"user_id"}, user_id |-> 2, service |-> NoServiceName, type |-> "null"],
      [sets |-> {"service", "type"}, user_id |-> NoUserId, service |-> "admin",
       type |-> "service"] }

\* the additional payloads the issue methods are called with
IssueExtras == Extras \cup OverridingExtras

\* the spread as it would be with the additional payload put first, so that
\* the claims the method sets itself come last and stay
Spread_ClaimsLast(claims, extra) ==
    [ user_id |-> IF claims.user_id = NoUserId /\ "user_id" \in extra.sets
                  THEN extra.user_id ELSE claims.user_id,
      service |-> IF claims.service = NoServiceName /\ "service" \in extra.sets
                  THEN extra.service ELSE claims.service,
      type    |-> claims.type,
      iat     |-> claims.iat,
      exp     |-> claims.exp ]

\* { ...claims, ...additionalPayload }
Spread(claims, extra) ==
    [ user_id |-> IF "user_id" \in extra.sets THEN extra.user_id ELSE claims.user_id,
      service |-> IF "service" \in extra.sets THEN extra.service ELSE claims.service,
      type    |-> IF "type" \in extra.sets THEN extra.type ELSE claims.type,
      iat     |-> claims.iat,
      exp     |-> claims.exp ]

\* jwt.sign(payload, secret, {expiresIn}): exp = iat + expiresIn
jwtSign(payload, secret, expiresIn) ==
    Jwt([payload EXCEPT !.exp = payload.iat + expiresIn], secret)

\* jwt.verify as it would be if it did not compare the signature
jwtVerify_NoSignatureCheck(token, secret, t) ==
    IF token.sig = "malformed"
    THEN [error |-> "JsonWebTokenError", payload |-> NullPayload]
    ELSE IF t >= token.payload.exp
    THEN [error |-> "TokenExpiredError", payload |-> NullPayload]
    ELSE [error |-> NoError, payload |-> token.payload]

\* jwt.verify(token, secret) at time t: the payload, or the error it throws
jwtVerify(token, secret, t) ==
    IF token = NotYetValid
    THEN [error |-> "NotBeforeError", payload |-> NullPayload]
    ELSE IF token.sig = "malformed" \/ token.sig # secret
    THEN [error |-> "JsonWebTokenError", payload |-> NullPayload]
    ELSE IF t >= token.payload.exp
    THEN [error |-> "TokenExpiredError", payload |-> NullPayload]
    ELSE [error |-> NoError, payload |-> token.payload]

\* the errors verifyToken swallows without logging
ExpectedErrors == {"TokenExpiredError", "JsonWebTokenError"}

\* how a call of verifyToken ends
VerifyReturned(value, logged) == [thrown |-> FALSE, logged |-> logged, value |-> value]

VerifyThrown(error) == [thrown |-> TRUE, logged |-> FALSE, value |-> NullPayload]

\* verifyToken as it would be if its catch block passed on the errors it logs
verifyTokenCall_RethrowsUnexpected(token, secret, t) ==
    IF ~Truthy(token) \/ secret = NullSecret THEN VerifyReturned(NullPayload, FALSE)
    ELSE LET verdict == jwtVerify(token, secret, t)
         IN  IF verdict.error = NoError THEN VerifyReturned(verdict.payload, FALSE)
             ELSE IF verdict.error \notin ExpectedErrors THEN VerifyThrown(verdict.error)
             ELSE VerifyReturned(NullPayload, FALSE)

\* verifyToken(token, secret): the guard, the try and the catch
verifyTokenCall(token, secret, t) ==
    IF ~Truthy(token) \/ secret = NullSecret THEN VerifyReturned(NullPayload, FALSE)
    ELSE LET verdict == jwtVerify(token, secret, t)
         IN  IF verdict.error = NoError THEN VerifyReturned(verdict.payload, FALSE)
             ELSE VerifyReturned(NullPayload, verdict.error \notin ExpectedErrors)

\* what verifyToken(token, secret) returns
verifyToken(token, secret, t) == verifyTokenCall(token, secret, t).value

NoToken == Undefined

IssueReturned(token) == [thrown |-> FALSE, error |-> NoError, token |-> token]

IssueThrown(msg) == [thrown |-> TRUE, error |-> msg, token |-> NoToken]

\* issueAccessToken as it would be without the test of the secret
issueAccessToken_NoSecretCheck(cfg, t, user_id, additionalPayload) ==
    IF user_id = NoUserId
    THEN IssueThrown("user_id is required for token generation")
    ELSE IssueReturned(jwtSign(
             Spread([user_id |-> user_id, service |-> NoServiceName, type |-> "access",
                     iat |-> t, exp |-> 0], additionalPayload),
             cfg.JWT_SECRET, cfg.JWT_EXPIRATION))

\* issueAccessToken as it would be if it signed with no lifetime
issueAccessToken_ExpiresAtOnce(cfg, t, user_id, additionalPayload) ==
    IF cfg.JWT_SECRET = NullSecret THEN IssueThrown("JWT_SECRET not configured")
    ELSE IF user_id = NoUserId
    THEN IssueThrown("user_id is required for token generation")
    ELSE IssueReturned(jwtSign(
             Spread([user_id |-> user_id, service |-> NoServiceName, type |-> "access",
                     iat |-> t, exp |-> 0], additionalPayload),
             cfg.JWT_SECRET, 0))

\* issueAccessToken(user_id, additionalPayload) at time t
issueAccessToken(cfg, t, user_id, additionalPayload) ==
    IF cfg.JWT_SECRET = NullSecret THEN IssueThrown("JWT_SECRET not configured")
    ELSE IF user_id = NoUserId
    THEN IssueThrown("user_id is required for token generation")
    ELSE IssueReturned(jwtSign(
             Spread([user_id |-> user_id, service |-> NoServiceName, type |-> "access",
                     iat |-> t, exp |-> 0], additionalPayload),
             cfg.JWT_SECRET, cfg.JWT_EXPIRATION))

\* issueRefreshToken(user_id, additionalPayload) at time t
issueRefreshToken(cfg, t, user_id, additionalPayload) ==
    IF cfg.JWT_REFRESH = NullSecret THEN IssueThrown("JWT_REFRESH not configured")
    ELSE IF user_id = NoUserId
    THEN IssueThrown("user_id is required for refresh token generation")
    ELSE IssueReturned(jwtSign(
             Spread([user_id |-> user_id, service |-> NoServiceName, type |-> "refresh",
                     iat |-> t, exp |-> 0], additionalPayload),
             cfg.JWT_REFRESH, cfg.JWT_REFRESH_EXPIRATION))

\* issueServiceToken as it would be if it looked at the name before the secret
issueServiceToken_IdentityFirst(cfg, t, serviceName, additionalPayload) ==
    IF serviceName = NoServiceName
    THEN IssueThrown("serviceName is required for service token generation")
    ELSE IF cfg.JWT_SERVICE = NullSecret
    THEN IssueThrown("JWT_SERVICE secret not configured")
    ELSE IssueReturned(jwtSign(
             Spread([user_id |-> NoUserId, service |-> serviceName, type |-> "service",
                     iat |-> t, exp |-> 0], additionalPayload),
             cfg.JWT_SERVICE, cfg.JWT_EXPIRATION))

\* issueServiceToken(serviceName, additionalPayload) at time t
issueServiceToken(cfg, t, serviceName, additionalPayload) ==
    IF cfg.JWT_SERVICE = NullSecret THEN IssueThrown("JWT_SERVICE secret not configured")
    ELSE IF serviceName = NoServiceName
    THEN IssueThrown("serviceName is required for service token generation")
    ELSE IssueReturned(jwtSign(
             Spread([user_id |-> NoUserId, service |-> serviceName, type |-> "service",
                     iat |-> t, exp |-> 0], additionalPayload),
             cfg.JWT_SERVICE, cfg.JWT_EXPIRATION))

\* the tokens the server's issue methods hand out at time t
IssuedAt(cfg, t) ==
    { r.token : r \in { i \in
        { issueAccessToken(cfg, t, u, x) : u \in Users, x \in Extras }
        \cup { issueRefreshToken(cfg, t, u, x) : u \in Users, x \in Extras }
        \cup { issueServiceToken(cfg, t, n, x) : n \in ServiceNames, x \in Extras } :
        ~i.thrown } }

\* tokens signed by somebody who does not know the server's secrets
Forged ==
    { Jwt([user_id |-> 1, service |-> NoServiceName, type |-> "access",
           iat |-> 0, exp |-> MaxTime + 1], ForeignKey),
      Jwt([user_id |-> 1, service |-> NoServiceName, type |-> "refresh",
           iat |-> 0, exp |-> MaxTime + 1], ForeignKey) }

\* text that is no token
NotTokens == {Malformed, EmptyString}

\* what a client can put after "Bearer " or into the refreshToken cookie at
\* time t: a token issued so far, a forged one, or text that is no token
Presentable(cfg, t) ==
    UNION { IssuedAt(cfg, t0) : t0 \in 0..t } \cup Forged \cup NotTokens

(***************************************************************************)
(* Requests, responses and the three auth middlewares.  A middleware is    *)
(* an operator from (config, time, request, response) to what it leaves    *)
(* behind: whether it called next, the request and the response as it      *)
(* changed them, and the verifyToken calls it made.                        *)
(***************************************************************************)
NoUser == [set |-> FALSE, user_id |-> NoUserId, payload |-> NullPayload,
           tokenRefreshed |-> FALSE]

NoService == [set |-> FALSE, name |-> NoServiceName, payload |-> NullPayload]

\* req.headers.authorization: undefined, "Basic ...", or "Bearer " + token
NoHeader == [scheme |-> "undefined", token |-> Undefined]

BasicHeader == [scheme |-> "Basic", token |-> Malformed]

Bearer(token) == [scheme |-> "Bearer", token |-> token]

NoRequest == [route |-> "none", authorization |-> NoHeader, cookie |-> Undefined,
              user |-> NoUser, service |-> NoService]

\* a response nothing was written to: status 0 means not sent
FreshResponse == [status |-> 0, message |-> "", newAccessToken |-> NoToken,
                  cookieCleared |-> FALSE, sends |-> 0]

\* sendError(res, {message}, status)
sendError(response, message, status) ==
    [response EXCEPT !.status = status, !.message = message, !.sends = @ + 1]

\* return this.sendError(...): next is not called
Rejected(rq, response, log) ==
    [next |-> FALSE, nexts |-> 0, req |-> rq, res |-> response, verified |-> log]

\* return next(), or next() as the last statement: next is called once
Accepted(rq, response, log) ==
    [next |-> TRUE, nexts |-> 1, req |-> rq, res |-> response, verified |-> log]

\* authHeader?.startsWith('Bearer ') as it would be if only the header's
\* presence were tested
startsWithBearer_AnyHeader(authHeader) == authHeader.scheme # "undefined"

\* authHeader?.startsWith('Bearer ')
startsWithBearer(authHeader) == authHeader.scheme = "Bearer"

\* the service test as it would be if it looked for a user id
isServiceClaims_ChecksUserId(decoded) ==
    decoded.user_id # NoUserId /\ decoded.type = "service"

\* decoded?.service && decoded?.type === 'service'
isServiceClaims(decoded) ==
    decoded.service # NoServiceName /\ decoded.type = "service"

\* the user test as it would be without the comparison of the type
isUserClaims_NoTypeCheck(decoded) == decoded.user_id # NoUserId

\* the user test as it would be if it took refresh tokens for access tokens
isUserClaims_AcceptsRefreshType(decoded) ==
    decoded.user_id # NoUserId /\ (decoded.type = "access" \/ decoded.type = "refresh")

\* decoded?.user_id && decoded?.type === 'access'
isUserClaims(decoded) ==
    decoded.user_id # NoUserId /\ decoded.type = "access"

\* the refresh test as it would be without the comparison of the type
isRefreshClaims_NoTypeCheck(decoded) == decoded.user_id # NoUserId

\* !(!decoded?.user_id || decoded?.type !== 'refresh')
isRefreshClaims(decoded) ==
    ~(decoded.user_id = NoUserId \/ decoded.type # "refresh")

\* auth as it would be if accepting a service token did not end it: the
\* service principal stays on the request while the user checks go on
auth_ServiceFallsThrough(cfg, t, rq, response) ==
    LET authHeader     == rq.authorization
        accessToken    == authHeader.token
        serviceDecoded == verifyToken(accessToken, cfg.JWT_SERVICE, t)
        userDecoded    == verifyToken(accessToken, cfg.JWT_SECRET, t)
        refreshToken   == rq.cookie
        refreshDecoded == verifyToken(refreshToken, cfg.JWT_REFRESH, t)
        issued         == issueAccessToken(cfg, t, refreshDecoded.user_id, NoExtra)
        logService     == IF cfg.JWT_SERVICE # NullSecret
                          THEN {<<"bearer", "JWT_SERVICE">>} ELSE {}
        logUser        == logService \cup {<<"bearer", "JWT_SECRET">>}
        logRefresh     == logUser \cup {<<"cookie", "JWT_REFRESH">>}
        withService    == IF cfg.JWT_SERVICE # NullSecret /\ isServiceClaims(serviceDecoded)
                          THEN [rq EXCEPT !.service = [set |-> TRUE,
                                                       name |-> serviceDecoded.service,
                                                       payload |-> serviceDecoded]]
                          ELSE rq
    IN  IF ~startsWithBearer(authHeader)
        THEN Rejected(rq, sendError(response,
                 "Missing or invalid Authorization header", 401), {})
        ELSE IF ~Truthy(accessToken)
        THEN Rejected(rq, sendError(response, "Access token not provided", 401), {})
        ELSE IF isUserClaims(userDecoded)
        THEN Accepted([withService EXCEPT !.user = [set |-> TRUE,
                                                    user_id |-> userDecoded.user_id,
                                                    payload |-> userDecoded,
                                                    tokenRefreshed |-> FALSE]],
                      response, logUser)
        ELSE IF ~Truthy(refreshToken)
        THEN IF withService.service.set THEN Accepted(withService, response, logUser)
             ELSE Rejected(rq, sendError(response,
                      "Access token expired and no refresh token provided", 401), logUser)
        ELSE IF ~isRefreshClaims(refreshDecoded)
        THEN IF withService.service.set THEN Accepted(withService, response, logRefresh)
             ELSE Rejected(rq, sendError([response EXCEPT !.cookieCleared = TRUE],
                      "Invalid refresh token. Please log in again", 401), logRefresh)
        ELSE IF issued.thrown
        THEN Rejected(rq, sendError(response, "Failed to refresh access token", 500),
                      logRefresh)
        ELSE Accepted([withService EXCEPT !.user = [set |-> TRUE,
                                                    user_id |-> refreshDecoded.user_id,
                                                    payload |-> refreshDecoded,
                                                    tokenRefreshed |-> TRUE]],
                      [response EXCEPT !.newAccessToken = issued.token],
                      logRefresh)

\* auth as it would be if it renewed only for a bearer token that jwt.verify
\* refuses for its age, and rejected every other token that fails both checks
auth_RenewsOnlyExpired(cfg, t, rq, response) ==
    LET authHeader     == rq.authorization
        accessToken    == authHeader.token
        serviceDecoded == verifyToken(accessToken, cfg.JWT_SERVICE, t)
        userDecoded    == verifyToken(accessToken, cfg.JWT_SECRET, t)
        refreshToken   == rq.cookie
        refreshDecoded == verifyToken(refreshToken, cfg.JWT_REFRESH, t)
        issued         == issueAccessToken(cfg, t, refreshDecoded.user_id, NoExtra)
        logService     == IF cfg.JWT_SERVICE # NullSecret
                          THEN {<<"bearer", "JWT_SERVICE">>} ELSE {}
        logUser        == logService \cup {<<"bearer", "JWT_SECRET">>}
        logRefresh     == logUser \cup {<<"cookie", "JWT_REFRESH">>}
    IN  IF ~startsWithBearer(authHeader)
        THEN Rejected(rq, sendError(response,
                 "Missing or invalid Authorization header", 401), {})
        ELSE IF ~Truthy(accessToken)
        THEN Rejected(rq, sendError(response, "Access token not provided", 401), {})
        ELSE IF cfg.JWT_SERVICE # NullSecret /\ isServiceClaims(serviceDecoded)
        THEN Accepted([rq EXCEPT !.service = [set |-> TRUE,
                                              name |-> serviceDecoded.service,
                                              payload |-> serviceDecoded]],
                      response, logService)
        ELSE IF isUserClaims(userDecoded)
        THEN Accepted([rq EXCEPT !.user = [set |-> TRUE,
                                           user_id |-> userDecoded.user_id,
                                           payload |-> userDecoded,
                                           tokenRefreshed |-> FALSE]],
                      response, logUser)
        ELSE IF jwtVerify(accessToken, cfg.JWT_SECRET, t).error # "TokenExpiredError"
        THEN Rejected(rq, sendError(response, "Invalid access token", 401), logUser)
        ELSE IF ~Truthy(refreshToken)
        THEN Rejected(rq, sendError(response,
                 "Access token expired and no refresh token provided", 401), logUser)
        ELSE IF ~isRefreshClaims(refreshDecoded)
        THEN Rejected(rq, sendError([response EXCEPT !.cookieCleared = TRUE],
                 "Invalid refresh token. Please log in again", 401), logRefresh)
        ELSE IF issued.thrown
        THEN Rejected(rq, sendError(response, "Failed to refresh access token", 500),
                      logRefresh)
        ELSE Accepted([rq EXCEPT !.user = [set |-> TRUE,
                                           user_id |-> refreshDecoded.user_id,
                                           payload |-> refreshDecoded,
                                           tokenRefreshed |-> TRUE]],
                      [response EXCEPT !.newAccessToken = issued.token],
                      logRefresh)

\* auth = (req, res, next) => ...
auth(cfg, t, rq, response) ==
    LET authHeader     == rq.authorization
        accessToken    == authHeader.token
        serviceDecoded == verifyToken(accessToken, cfg.JWT_SERVICE, t)
        userDecoded    == verifyToken(accessToken, cfg.JWT_SECRET, t)
        refreshToken   == rq.cookie
        refreshDecoded == verifyToken(refreshToken, cfg.JWT_REFRESH, t)
        issued         == issueAccessToken(cfg, t, refreshDecoded.user_id, NoExtra)
        logService     == IF cfg.JWT_SERVICE # NullSecret
                          THEN {<<"bearer", "JWT_SERVICE">>} ELSE {}
        logUser        == logService \cup {<<"bearer", "JWT_SECRET">>}
        logRefresh     == logUser \cup {<<"cookie", "JWT_REFRESH">>}
    IN  IF ~startsWithBearer(authHeader)
        THEN Rejected(rq, sendError(response,
                 "Missing or invalid Authorization header", 401), {})
        ELSE IF ~Truthy(accessToken)
        THEN Rejected(rq, sendError(response, "Access token not provided", 401), {})
        ELSE IF cfg.JWT_SERVICE # NullSecret /\ isServiceClaims(serviceDecoded)
        THEN Accepted([rq EXCEPT !.service = [set |-> TRUE,
                                              name |-> serviceDecoded.service,
                                              payload |-> serviceDecoded]],
                      response, logService)
        ELSE IF isUserClaims(userDecoded)
        THEN Accepted([rq EXCEPT !.user = [set |-> TRUE,
                                           user_id |-> userDecoded.user_id,
                                           payload |-> userDecoded,
                                           tokenRefreshed |-> FALSE]],
                      response, logUser)
        ELSE IF ~Truthy(refreshToken)
        THEN Rejected(rq, sendError(response,
                 "Access token expired and no refresh token provided", 401), logUser)
        ELSE IF ~isRefreshClaims(refreshDecoded)
        THEN Rejected(rq, sendError([response EXCEPT !.cookieCleared = TRUE],
                 "Invalid refresh token. Please log in again", 401), logRefresh)
        ELSE IF issued.thrown
        THEN Rejected(rq, sendError(response, "Failed to refresh access token", 500),
                      logRefresh)
        ELSE Accepted([rq EXCEPT !.user = [set |-> TRUE,
                                           user_id |-> refreshDecoded.user_id,
                                           payload |-> refreshDecoded,
                                           tokenRefreshed |-> TRUE]],
                      [response EXCEPT !.newAccessToken = issued.token],
                      logRefresh)

\* authUserOnly as it would be if it renewed from the refresh cookie as auth does
authUserOnly_FallsBackToRenewal(cfg, t, rq, response) ==
    LET token          == rq.authorization.token
        decoded        == verifyToken(token, cfg.JWT_SECRET, t)
        refreshDecoded == verifyToken(rq.cookie, cfg.JWT_REFRESH, t)
        issued         == issueAccessToken(cfg, t, refreshDecoded.user_id, NoExtra)
        log            == {<<"bearer", "JWT_SECRET">>}
    IN  IF ~startsWithBearer(rq.authorization)
        THEN Rejected(rq, sendError(response, "User token required", 401), {})
        ELSE IF isUserClaims(decoded)
        THEN Accepted([rq EXCEPT !.user = [set |-> TRUE,
                                           user_id |-> decoded.user_id,
                                           payload |-> decoded,
                                           tokenRefreshed |-> FALSE]],
                      response, log)
        ELSE IF ~isRefreshClaims(refreshDecoded) \/ issued.thrown
        THEN Rejected(rq, sendError(response, "Invalid or expired user token", 401), log)
        ELSE Accepted([rq EXCEPT !.user = [set |-> TRUE,
                                           user_id |-> refreshDecoded.user_id,
                                           payload |-> refreshDecoded,
                                           tokenRefreshed |-> TRUE]],
                      [response EXCEPT !.newAccessToken = issued.token], log)

\* authUserOnly = (req, res, next) => ...
authUserOnly(cfg, t, rq, response) ==
    LET authHeader == rq.authorization
        token      == authHeader.token
        decoded    == verifyToken(token, cfg.JWT_SECRET, t)
        log        == {<<"bearer", "JWT_SECRET">>}
    IN  IF ~startsWithBearer(authHeader)
        THEN Rejected(rq, sendError(response, "User token required", 401), {})
        ELSE IF ~isUserClaims(decoded)
        THEN Rejected(rq, sendError(response, "Invalid or expired user token", 401), log)
        ELSE Accepted([rq EXCEPT !.user = [set |-> TRUE,
                                           user_id |-> decoded.user_id,
                                           payload |-> decoded,
                                           tokenRefreshed |-> FALSE]],
                      response, log)

\* authServiceOnly as it would be if it read the header before the configuration
authServiceOnly_HeaderFirst(cfg, t, rq, response) ==
    LET decoded == verifyToken(rq.authorization.token, cfg.JWT_SERVICE, t)
        log     == {<<"bearer", "JWT_SERVICE">>}
    IN  IF ~startsWithBearer(rq.authorization)
        THEN Rejected(rq, sendError(response, "Service token required", 401), {})
        ELSE IF cfg.JWT_SERVICE = NullSecret
        THEN Rejected(rq, sendError(response,
                 "Service authentication not configured", 500), {})
        ELSE IF ~isServiceClaims(decoded)
        THEN Rejected(rq, sendError(response, "Invalid service token", 403), log)
        ELSE Accepted([rq EXCEPT !.service = [set |-> TRUE,
                                              name |-> decoded.service,
                                              payload |-> decoded]],
                      response, log)

\* authServiceOnly as it would be if sending 401 for a missing bearer token
\* did not end it: the token check goes on and answers a second time
authServiceOnly_NoReturnAfter401(cfg, t, rq, response) ==
    LET authHeader == rq.authorization
        token      == authHeader.token
        decoded    == verifyToken(token, cfg.JWT_SERVICE, t)
        log        == {<<"bearer", "JWT_SERVICE">>}
    IN  IF cfg.JWT_SERVICE = NullSecret
        THEN Rejected(rq, sendError(response,
                 "Service authentication not configured", 500), {})
        ELSE IF ~startsWithBearer(authHeader)
        THEN Rejected(rq, sendError(sendError(response, "Service token required", 401),
                                    "Invalid service token", 403), log)
        ELSE IF ~isServiceClaims(decoded)
        THEN Rejected(rq, sendError(response, "Invalid service token", 403), log)
        ELSE Accepted([rq EXCEPT !.service = [set |-> TRUE,
                                              name |-> decoded.service,
                                              payload |-> decoded]],
                      response, log)

\* authServiceOnly = (req, res, next) => ...
authServiceOnly(cfg, t, rq, response) ==
    LET authHeader == rq.authorization
        token      == authHeader.token
        decoded    == verifyToken(token, cfg.JWT_SERVICE, t)
        log        == {<<"bearer", "JWT_SERVICE">>}
    IN  IF cfg.JWT_SERVICE = NullSecret
        THEN Rejected(rq, sendError(response,
                 "Service authentication not configured", 500), {})
        ELSE IF ~startsWithBearer(authHeader)
        THEN Rejected(rq, sendError(response, "Service token required", 401), {})
        ELSE IF ~isServiceClaims(decoded)
        THEN Rejected(rq, sendError(response, "Invalid service token", 403), log)
        ELSE Accepted([rq EXCEPT !.service = [set |-> TRUE,
                                              name |-> decoded.service,
                                              payload |-> decoded]],
                      response, log)

\* the middleware each protected route of the example application declares
MiddlewareOf(route) ==
    CASE route = "profile" -> "auth"
      [] route = "logout"  -> "auth"
      [] route = "update"  -> "authUserOnly"
      [] route = "status"  -> "authServiceOnly"
      [] OTHER             -> "none"

(***************************************************************************)
(* The server's life: constructed -> (start) -> binding -> listening, or   *)
(* rejected when start() throws.                                           *)
(***************************************************************************)
\* this.app: null until start() creates the Express application, then the
\* ordered stack of bindings registered on it
NoApp == [made |-> FALSE, stack |-> <<>>]

ExpressApp(bindings) == [made |-> TRUE, stack |-> bindings]

NoServer == "null"

TypeOK ==
    /\ phase \in {"constructed", "binding", "listening", "rejected", "closed"}
    /\ serverInstance \in {NoServer, "server"}
    /\ config.port \in Ports
    /\ config.prefix \in Prefixes

\* no request is on its way through a binding
NoBinding == [method |-> <<>>, path |-> <<>>, middlewares |-> <<>>, handler |-> "none"]

\* the values of JavaScript that are no objects: undefined and null
JsUndefined == [jsType |-> "undefined"]

JsNull == [jsType |-> "null"]

\* {}
EmptyObject == <<>>

NoExchange == [stage |-> "idle", binding |-> NoBinding, pos |-> 0, ran |-> <<>>,
               did |-> <<>>, err |-> <<>>, headersSent |-> FALSE, writes |-> <<>>,
               returned |-> JsUndefined, method |-> <<>>, path |-> <<>>]

\* no method of server.jwt has been called
NoCall == [op |-> "none", t |-> 0, user_id |-> NoUserId, serviceName |-> NoServiceName,
           additionalPayload |-> NoExtra, outcome |-> IssueReturned(NoToken)]

NoCheck == [done |-> FALSE, t |-> 0, token |-> Undefined, secret |-> NullSecret,
            thrown |-> FALSE, logged |-> FALSE, result |-> NullPayload]

\* the connections requests come in on at the same time
Connections == {"c1", "c2"}

\* a connection without a request; ranAt is the time its middleware ran
NoneInFlight == [stage |-> "idle", req |-> NoRequest, res |-> FreshResponse,
                 nextCalled |-> FALSE, ranAt |-> 0]

NoCallYet ==
    /\ call = NoCall
    /\ check = NoCheck
    /\ exchange = NoExchange
    /\ inflight = [c \in Connections |-> NoneInFlight]

\* no request has arrived
NoRequestYet ==
    /\ now = 0
    /\ stage = "idle"
    /\ req = NoRequest
    /\ res = FreshResponse
    /\ nextCalled = FALSE
    /\ nextCalls = 0
    /\ verified = {}
    /\ revokedTokens = {}

\* new FastNodeREST({port, prefix}): routes defaults to {}, the secrets to null
InitRoutes ==
    /\ config \in [port : Ports, prefix : Prefixes,
                   routes : {ObjNode({}, <<>>, "none", <<>>, NoKids)},
                   JWT_SECRET : {NullSecret}, JWT_REFRESH : {NullSecret},
                   JWT_SERVICE : {NullSecret},
                   JWT_EXPIRATION : {1}, JWT_REFRESH_EXPIRATION : {2}]
    /\ NoRequestYet
    /\ NoCallYet
    /\ app = NoApp
    /\ serverInstance = NoServer
    /\ phase = "constructed"
    /\ startError = NoError
    /\ served = "none"

\* the application declares one more key of its route tree before starting
DeclareRoute ==
    /\ phase = "constructed"
    /\ Size(config.routes) < MaxNodes
    /\ \E p \in ObjPaths(config.routes), k \in Keys, v \in DeclaredValues :
          /\ k \notin KeysOf(NodeAt(config.routes, p).kids)
          /\ config' = [config EXCEPT
                           !.routes = InsertAt(@, p, [key |-> k, val |-> v])]
    /\ UNCHANGED <<app, serverInstance, phase, startError, served>>
    /\ UNCHANGED requestVars
    /\ UNCHANGED callVars
    /\ UNCHANGED pipeVars

\* start() as it would be if it caught the compiler's exception and went on
Start_SwallowCompileError ==
    /\ phase = "constructed"
    /\ LET valid  == validateConfig(config)
           parsed == parseRoutes(config.prefix, config.routes, <<>>)
       IN  IF valid.thrown
           THEN /\ phase' = "rejected"
                /\ startError' = valid.error
                /\ UNCHANGED <<app, serverInstance>>
           ELSE /\ phase' = "binding"
                /\ app' = ExpressApp(parsed.app)
                /\ serverInstance' = "server"
                /\ startError' = parsed.error
    /\ UNCHANGED <<config, served>>
    /\ UNCHANGED requestVars
    /\ UNCHANGED callVars
    /\ UNCHANGED pipeVars

\* start(), up to the call of app.listen
Start ==
    /\ phase = "constructed"
    /\ LET valid  == validateConfig(config)
           parsed == parseRoutes(config.prefix, config.routes, <<>>)
       IN  IF valid.thrown
           THEN /\ phase' = "rejected"
                /\ startError' = valid.error
                /\ UNCHANGED <<app, serverInstance>>
           ELSE IF parsed.thrown
           THEN /\ phase' = "rejected"
                /\ startError' = parsed.error
                /\ app' = ExpressApp(parsed.app)
                /\ UNCHANGED serverInstance
           ELSE /\ phase' = "binding"
                /\ app' = ExpressApp(parsed.app)
                /\ serverInstance' = "server"
                /\ UNCHANGED startError
    /\ UNCHANGED <<config, served>>
    /\ UNCHANGED requestVars
    /\ UNCHANGED callVars
    /\ UNCHANGED pipeVars

\* what app.listen hands its callback: no error, or the port is taken
ListenErrors == {NoError, "EADDRINUSE"}

\* the callback of app.listen: the promise of start() resolves, or rejects
\* when the callback is given an error
ListenCallback ==
    /\ phase = "binding"
    /\ \E err \in ListenErrors :
          IF err # NoError
          THEN phase' = "rejected" /\ startError' = err
          ELSE phase' = "listening" /\ UNCHANGED startError
    /\ UNCHANGED <<config, app, serverInstance, served>>
    /\ UNCHANGED requestVars
    /\ UNCHANGED callVars
    /\ UNCHANGED pipeVars

\* the segments of a registered path that stand for any value, as ':id'
ParamSegments == {":id"}

\* Express compares the path of a request with the path a binding was
\* registered with piece by piece; a placeholder takes any one segment
PathMatches(pattern, path) ==
    /\ Len(pattern) = Len(path)
    /\ \A i \in DOMAIN pattern :
          \/ pattern[i] = path[i]
          \/ pattern[i] \in ParamSegments /\ path[i] # Slash

\* the bindings a request (method, path) matches, in registration order
Matching(bindings, method, path) ==
    SelectSeq(bindings, LAMBDA b : b.method = method /\ PathMatches(b.path, path))

RequestMethods == {M_get, M_post}

RequestPaths(bindings) == {bindings[i].path : i \in DOMAIN bindings} \cup {<<Slash, "zz">>}

\* a listening server routes a request to the first binding that matches it,
\* or to notFoundHandler
Dispatch ==
    /\ phase = "listening"
    /\ \E m \in RequestMethods, path \in RequestPaths(app.stack) :
          LET hit == Matching(app.stack, m, path)
          IN  served' = IF hit = <<>> THEN "notFound" ELSE Head(hit).handler
    /\ UNCHANGED <<config, app, serverInstance, phase, startError>>
    /\ UNCHANGED requestVars
    /\ UNCHANGED callVars
    /\ UNCHANGED pipeVars

\* stop()
Stop ==
    /\ serverInstance # NoServer
    /\ phase \in {"binding", "listening"}
    /\ phase' = "closed"
    /\ UNCHANGED <<config, app, serverInstance, startError, served>>
    /\ UNCHANGED requestVars
    /\ UNCHANGED callVars
    /\ UNCHANGED pipeVars

NextRoutes == DeclareRoute \/ Start \/ ListenCallback \/ Dispatch \/ Stop

SpecRoutes == InitRoutes /\ [][NextRoutes]_vars

(***************************************************************************)
(* Requests to the protected routes of a listening server.                 *)
(***************************************************************************)
\* a server with no routes of its own, listening
Listening ==
    /\ config.port = 3000
    /\ config.prefix = <<>>
    /\ config.routes = ObjNode({}, <<>>, "none", <<>>, NoKids)
    /\ config.JWT_EXPIRATION = 1
    /\ config.JWT_REFRESH_EXPIRATION = 2
    /\ app = ExpressApp(<<>>)
    /\ serverInstance = "server"
    /\ phase = "listening"
    /\ startError = NoError
    /\ served = "none"

\* new FastNodeREST({JWT_SECRET, JWT_REFRESH, JWT_SERVICE}) started: every
\* combination of configured, equal and missing secrets
InitAuth ==
    /\ config \in [port : {3000}, prefix : {<<>>},
                   routes : {ObjNode({}, <<>>, "none", <<>>, NoKids)},
                   JWT_SECRET : Secrets, JWT_REFRESH : Secrets, JWT_SERVICE : Secrets,
                   JWT_EXPIRATION : {1}, JWT_REFRESH_EXPIRATION : {2}]
    /\ Listening
    /\ NoRequestYet
    /\ NoCallYet

\* time passes between requests
Tick ==
    /\ stage = "idle"
    /\ now < MaxTime
    /\ now' = now + 1
    /\ UNCHANGED <<stage, req, res, nextCalled, nextCalls, verified, revokedTokens>>
    /\ UNCHANGED routeVars
    /\ UNCHANGED callVars
    /\ UNCHANGED pipeVars

\* headers that carry no bearer token
PlainHeaders == {NoHeader, BasicHeader}

Headers(cfg, t) == PlainHeaders \cup {Bearer(tok) : tok \in Presentable(cfg, t)}

Cookies(cfg, t) == {Undefined} \cup Presentable(cfg, t)

\* a request to one of routes arrives and enters the route's middleware chain
Arrive(routes) ==
    /\ stage = "idle"
    /\ \E route \in routes, header \in Headers(config, now), cookie \in Cookies(config, now) :
          req' = [NoRequest EXCEPT !.route = route, !.authorization = header,
                                   !.cookie = cookie]
    /\ res' = FreshResponse
    /\ nextCalled' = FALSE
    /\ nextCalls' = 0
    /\ verified' = {}
    /\ stage' = IF MiddlewareOf(req'.route) = "none" THEN "handler" ELSE "middleware"
    /\ UNCHANGED <<now, revokedTokens>>
    /\ UNCHANGED routeVars
    /\ UNCHANGED callVars
    /\ UNCHANGED pipeVars

\* the routes behind auth, authUserOnly and authServiceOnly
ProtectedRoutes == {"profile", "update", "status"}

NewRequest == Arrive(ProtectedRoutes)

\* what a middleware left behind becomes the state of the request
Leave(result) ==
    /\ req' = result.req
    /\ res' = result.res
    /\ verified' = result.verified
    /\ nextCalled' = result.next
    /\ nextCalls' = result.nexts
    /\ stage' = IF result.next THEN "handler" ELSE "responded"
    /\ UNCHANGED <<now, revokedTokens>>
    /\ UNCHANGED routeVars
    /\ UNCHANGED callVars
    /\ UNCHANGED pipeVars

AuthMiddleware ==
    /\ stage = "middleware"
    /\ MiddlewareOf(req.route) = "auth"
    /\ Leave(auth(config, now, req, res))

AuthUserOnlyMiddleware ==
    /\ stage = "middleware"
    /\ MiddlewareOf(req.route) = "authUserOnly"
    /\ Leave(authUserOnly(config, now, req, res))

AuthServiceOnlyMiddleware ==
    /\ stage = "middleware"
    /\ MiddlewareOf(req.route) = "authServiceOnly"
    /\ Leave(authServiceOnly(config, now, req, res))

\* sendSuccess(res, data, 200)
sendSuccess(response) == [response EXCEPT !.status = 200, !.sends = @ + 1]

\* the handler of a protected route returns a value, which the route's wrapper
\* sends with 200; the profile handler reads req.user.user_id, which throws
\* when auth let a service principal through, and errorHandler answers 500
Handler ==
    /\ stage = "handler"
    /\ req.route \in ProtectedRoutes
    /\ res' = IF req.route = "profile" /\ ~req.user.set
              THEN sendError(res, "Cannot read properties of undefined", 500)
              ELSE sendSuccess(res)
    /\ stage' = "responded"
    /\ UNCHANGED <<now, req, nextCalled, nextCalls, verified, revokedTokens>>
    /\ UNCHANGED routeVars
    /\ UNCHANGED callVars
    /\ UNCHANGED pipeVars

\* the response has gone out
Finish ==
    /\ stage = "responded"
    /\ stage' = "idle"
    /\ req' = NoRequest
    /\ res' = FreshResponse
    /\ nextCalled' = FALSE
    /\ nextCalls' = 0
    /\ verified' = {}
    /\ UNCHANGED <<now, revokedTokens>>
    /\ UNCHANGED routeVars
    /\ UNCHANGED callVars
    /\ UNCHANGED pipeVars

NextAuth ==
    \/ Tick
    \/ NewRequest
    \/ AuthMiddleware
    \/ AuthUserOnlyMiddleware
    \/ AuthServiceOnlyMiddleware
    \/ Handler
    \/ Finish

SpecAuth == InitAuth /\ [][NextAuth]_vars

(***************************************************************************)
(* The example application: its three secrets differ, and it keeps a       *)
(* deny-list of refresh tokens that its logout handler fills and its       *)
(* refresh handler reads.                                                  *)
(***************************************************************************)
InitExample ==
    /\ config = [port |-> 3000, prefix |-> <<>>,
                 routes |-> ObjNode({}, <<>>, "none", <<>>, NoKids),
                 JWT_SECRET |-> "k1", JWT_REFRESH |-> "k2", JWT_SERVICE |-> "k3",
                 JWT_EXPIRATION |-> 1, JWT_REFRESH_EXPIRATION |-> 2]
    /\ Listening
    /\ NoRequestYet
    /\ NoCallYet

\* the routes of the example application that handle tokens
ExampleRoutes == {"profile", "logout", "refresh"}

ExampleRequest == Arrive(ExampleRoutes)

\* the handler of POST /api/v1/auth/logout, behind the auth middleware
Logout ==
    /\ stage = "handler"
    /\ req.route = "logout"
    /\ LET refreshToken == req.cookie
       IN  IF Truthy(refreshToken)
           THEN /\ Cardinality(revokedTokens) < MaxRevoked
                /\ revokedTokens' = revokedTokens \cup {refreshToken}
           ELSE UNCHANGED revokedTokens
    /\ res' = sendSuccess([res EXCEPT !.cookieCleared = TRUE])
    /\ stage' = "responded"
    /\ UNCHANGED <<now, req, nextCalled, nextCalls, verified>>
    /\ UNCHANGED routeVars
    /\ UNCHANGED callVars
    /\ UNCHANGED pipeVars

\* the handler of POST /api/v1/auth/refresh, which has no middleware: its
\* new access token goes into the body of the response
Refresh ==
    /\ stage = "handler"
    /\ req.route = "refresh"
    /\ LET refreshToken == req.cookie
           decoded      == verifyToken(refreshToken, config.JWT_REFRESH, now)
           issued       == issueAccessToken(config, now, decoded.user_id, NoExtra)
       IN  res' = IF ~Truthy(refreshToken)
                  THEN sendError(res, "Refresh token not found", 401)
                  ELSE IF refreshToken \in revokedTokens
                  THEN sendError([res EXCEPT !.cookieCleared = TRUE],
                                 "Refresh token has been revoked", 401)
                  ELSE IF ~isRefreshClaims(decoded)
                  THEN sendError([res EXCEPT !.cookieCleared = TRUE],
                                 "Invalid refresh token", 401)
                  ELSE IF issued.thrown
                  THEN sendError(res, issued.error, 500)
                  ELSE sendSuccess(res)
    /\ stage' = "responded"
    /\ UNCHANGED <<now, req, nextCalled, nextCalls, verified, revokedTokens>>
    /\ UNCHANGED routeVars
    /\ UNCHANGED callVars
    /\ UNCHANGED pipeVars

NextExample ==
    \/ Tick
    \/ ExampleRequest
    \/ AuthMiddleware
    \/ Handler
    \/ Logout
    \/ Refresh
    \/ Finish

SpecExample == InitExample /\ [][NextExample]_vars

(***************************************************************************)
(* The application calls the methods of server.jwt directly: it issues     *)
(* tokens and verifies tokens against the secrets of the configuration.    *)
(***************************************************************************)
\* issueAccessToken(user_id, additionalPayload), user_id possibly missing and
\* additionalPayload one of extras
IssueAccessWith(extras) ==
    /\ stage = "idle"
    /\ \E u \in Users \cup {NoUserId}, x \in extras :
          call' = [op |-> "issueAccessToken", t |-> now, user_id |-> u,
                   serviceName |-> NoServiceName, additionalPayload |-> x,
                   outcome |-> issueAccessToken(config, now, u, x)]
    /\ UNCHANGED <<check, routeVars, requestVars, pipeVars>>

\* issueRefreshToken(user_id, additionalPayload)
IssueRefreshWith(extras) ==
    /\ stage = "idle"
    /\ \E u \in Users \cup {NoUserId}, x \in extras :
          call' = [op |-> "issueRefreshToken", t |-> now, user_id |-> u,
                   serviceName |-> NoServiceName, additionalPayload |-> x,
                   outcome |-> issueRefreshToken(config, now, u, x)]
    /\ UNCHANGED <<check, routeVars, requestVars, pipeVars>>

\* issueServiceToken(serviceName, additionalPayload)
IssueServiceWith(extras) ==
    /\ stage = "idle"
    /\ \E n \in ServiceNames \cup {NoServiceName}, x \in extras :
          call' = [op |-> "issueServiceToken", t |-> now, user_id |-> NoUserId,
                   serviceName |-> n, additionalPayload |-> x,
                   outcome |-> issueServiceToken(config, now, n, x)]
    /\ UNCHANGED <<check, routeVars, requestVars, pipeVars>>

IssueAccess == IssueAccessWith(Extras)

IssueRefresh == IssueRefreshWith(Extras)

IssueService == IssueServiceWith(Extras)

\* the same calls with additional payloads that name the method's own claims
IssueAccessOverriding == IssueAccessWith(IssueExtras)

IssueRefreshOverriding == IssueRefreshWith(IssueExtras)

IssueServiceOverriding == IssueServiceWith(IssueExtras)

NextIssue ==
    \/ Tick
    \/ IssueAccessOverriding
    \/ IssueRefreshOverriding
    \/ IssueServiceOverriding

SpecIssue == InitAuth /\ [][NextIssue]_vars

\* the three secrets of the configuration
SecretsOf(cfg) == {cfg.JWT_SECRET, cfg.JWT_REFRESH, cfg.JWT_SERVICE}

\* verifyToken(token, secret) on the token just issued, or on a token or text
\* that came from elsewhere
Verify ==
    /\ stage = "idle"
    /\ \E token \in {call.outcome.token, NotYetValid} \cup Forged \cup NotTokens,
          secret \in SecretsOf(config) :
          LET outcome == verifyTokenCall(token, secret, now)
          IN  check' = [done |-> TRUE, t |-> now, token |-> token, secret |-> secret,
                        thrown |-> outcome.thrown, logged |-> outcome.logged,
                        result |-> outcome.value]
    /\ UNCHANGED <<call, routeVars, requestVars, pipeVars>>

NextTokens ==
    \/ Tick
    \/ IssueAccess
    \/ IssueRefresh
    \/ IssueService
    \/ Verify

SpecTokens == InitAuth /\ [][NextTokens]_vars

(***************************************************************************)
(* A request on its way through a compiled binding: the leaf's             *)
(* middlewares, the wrapper addRoute puts around the handler, and          *)
(* errorHandler.  Objects are functions from their keys to their values,   *)
(* so that a key can be absent and a spread can override.                  *)
(***************************************************************************)
\* { ...a, ...b }
Merge(a, b) ==
    [k \in DOMAIN a \cup DOMAIN b |-> IF k \in DOMAIN b THEN b[k] ELSE a[k]]

\* error?.message, error?.field as conditions: present and not ''
HasText(error, key) == key \in DOMAIN error /\ error[key] # ""

\* err.status as a condition: present and not 0
HasStatus(error) == "status" \in DOMAIN error /\ error.status # 0

\* the error-like values handlers and middlewares fail with
ErrorLikes ==
    { [message |-> "Deliberate error for testing", status |-> 422,
       field |-> "test_field", extra |-> [code |-> "TEST_ERROR"]],
      [message |-> "All fields are required", status |-> 400],
      [message |-> "boom"],
      [message |-> "", status |-> 0, field |-> ""],
      [message |-> "Validation failed", status |-> 400,
       extra |-> [message |-> "replaced", field |-> "added"]],
      [status |-> 503] }

\* the body of sendError as it would be if the extra fields were left out
errorResponse_WithoutExtra(error) ==
    LET message   == [message |-> IF HasText(error, "message") THEN error.message
                                  ELSE "An error occurred"]
        withField == IF HasText(error, "field")
                     THEN Merge(message, [field |-> error.field]) ELSE message
    IN  [error |-> withField]

\* the body sendError builds: const errorResponse = { error: { ... } }
errorResponse(error) ==
    LET message   == [message |-> IF HasText(error, "message") THEN error.message
                                  ELSE "An error occurred"]
        withField == IF HasText(error, "field")
                     THEN Merge(message, [field |-> error.field]) ELSE message
        withExtra == IF "extra" \in DOMAIN error
                     THEN Merge(withField, error.extra) ELSE withField
    IN  [error |-> withExtra]

\* one res.status(status).json(body), and who made it
Written(by, status, body) == [by |-> by, status |-> status, body |-> body]

\* sendError(res, error, status) with an error-like object
sendErrorEnvelope(error, status) == Written("sendError", status, errorResponse(error))

\* sendSuccess as it would be if it put the data under a key of its own
sendSuccessEnvelope_Wrapped(data) ==
    Written("sendSuccess", 200, [data |-> IF data = JsUndefined THEN EmptyObject ELSE data])

\* sendSuccess(res, data = {}, status = 200) with the value the handler
\* returned: the default of the parameter stands in for undefined
sendSuccessEnvelope(data) ==
    Written("sendSuccess", 200, IF data = JsUndefined THEN EmptyObject ELSE data)

\* notFoundHandler
notFoundHandler ==
    sendErrorEnvelope([message |-> "Route not found",
                       extra |-> [path |-> "req.path", method |-> "req.method"]], 404)

\* the middlewares a leaf can declare, in the order it declares them
AllMiddlewares == <<"m1", "m2", "m3">>

MiddlewareLists ==
    {SubSeq(AllMiddlewares, 1, n) : n \in 0..MaxMiddlewares} \cup {<<"m2", "m1">>}

\* a leaf with these middlewares; without any the key is left out
LeafWith(middlewares) ==
    ObjNode(IF middlewares = <<>> THEN {"method", "handler"}
            ELSE {"method", "handler", "middlewares"},
            M_Get, "h1", middlewares, NoKids)

TreeWith(leaf) ==
    ObjNode({}, <<>>, "none", <<>>, <<[key |-> <<"a">>, val |-> leaf]>>)

\* a server started on a tree with one leaf
InitPipeline ==
    /\ config \in [port : {3000}, prefix : Prefixes,
                   routes : {TreeWith(LeafWith(m)) : m \in MiddlewareLists},
                   JWT_SECRET : {NullSecret}, JWT_REFRESH : {NullSecret},
                   JWT_SERVICE : {NullSecret},
                   JWT_EXPIRATION : {1}, JWT_REFRESH_EXPIRATION : {2}]
    /\ app = ExpressApp(parseRoutes(config.prefix, config.routes, <<>>).app)
    /\ serverInstance = "server"
    /\ phase = "listening"
    /\ startError = NoError
    /\ served = "none"
    /\ NoRequestYet
    /\ NoCallYet

\* the stages at which an exchange is over
ExchangeEnds == {"done", "passedOn"}

\* what a middleware does with (req, res, next)
MiddlewareBehaviours == {"next", "respond", "respondAndNext", "fail"}

\* what a handler does with (req, res)
HandlerBehaviours == {"returns", "sends", "throws", "sendsThenThrows"}

\* what a handler returns: an object, an empty one, null, or nothing
HandlerResults ==
    { [result |-> "data"], [error |-> [message |-> "not an error"]],
      EmptyObject, JsNull, JsUndefined }

\* what a middleware or a handler writes when it answers by itself
OwnResponse(by) == Written(by, 201, [sent |-> "manually"])

\* a request arrives: Express hands it to the first binding that matches, or
\* to notFoundHandler
Receive ==
    /\ phase = "listening"
    /\ exchange.stage = "idle"
    /\ \E m \in RequestMethods, path \in RequestPaths(app.stack) :
          LET hit == Matching(app.stack, m, path)
          IN  exchange' =
                IF hit = <<>>
                THEN [NoExchange EXCEPT !.stage = "done", !.headersSent = TRUE,
                                        !.writes = <<notFoundHandler>>,
                                        !.method = m, !.path = path]
                ELSE [NoExchange EXCEPT
                        !.stage = IF Head(hit).middlewares = <<>> THEN "handler" ELSE "chain",
                        !.binding = Head(hit), !.pos = 1,
                        !.method = m, !.path = path]
    /\ UNCHANGED <<routeVars, requestVars, callVars, inflight>>

\* writing to a response that has gone out throws
HeadersSentError == [message |-> "Cannot set headers after they are sent"]

\* Express calls the next middleware of the binding
RunMiddleware ==
    /\ exchange.stage = "chain"
    /\ LET name == exchange.binding.middlewares[exchange.pos]
           last == exchange.pos = Len(exchange.binding.middlewares)
       IN  \E b \in MiddlewareBehaviours, e \in ErrorLikes :
             LET sends     == b \in {"respond", "respondAndNext"}
                 sendFails == sends /\ exchange.headersSent
                 fails     == sendFails \/ b = "fail"
             IN  /\ b # "fail" => e = [message |-> "boom"]
                 /\ exchange' =
                      [exchange EXCEPT
                         !.ran = Append(@, name),
                         !.did = Append(@, IF sendFails THEN "fail" ELSE b),
                         !.pos = IF ~fails /\ b \in {"next", "respondAndNext"}
                                 THEN @ + 1 ELSE @,
                         !.err = IF sendFails THEN HeadersSentError
                                 ELSE IF fails THEN e ELSE @,
                         !.headersSent = @ \/ sends,
                         !.writes = IF sends /\ ~sendFails
                                    THEN Append(@, OwnResponse("middleware")) ELSE @,
                         !.stage = IF fails THEN "errorHandler"
                                   ELSE IF b = "respond" THEN "done"
                                   ELSE IF last THEN "handler" ELSE "chain"]
    /\ UNCHANGED <<routeVars, requestVars, callVars, inflight>>

\* the wrapper addRoute registers after the middlewares: await the handler,
\* send its result unless a response has gone out, pass what it throws to next
RunHandler ==
    /\ exchange.stage = "handler"
    /\ \E h \in HandlerBehaviours, e \in ErrorLikes, result \in HandlerResults :
          LET sends       == h \in {"sends", "sendsThenThrows"}
              sendFails   == sends /\ exchange.headersSent
              throws      == sendFails \/ h \in {"throws", "sendsThenThrows"}
              error       == IF sendFails THEN HeadersSentError ELSE e
              afterSend   == IF sends /\ ~sendFails
                             THEN Append(exchange.writes, OwnResponse("handler"))
                             ELSE exchange.writes
              headersSent == exchange.headersSent \/ sends
          IN  /\ ~(h \in {"throws", "sendsThenThrows"}) => e = [message |-> "boom"]
              /\ throws => result = JsUndefined
              /\ exchange' =
                   [exchange EXCEPT
                      !.ran = Append(@, exchange.binding.handler),
                      !.did = Append(@, h),
                      !.err = IF throws THEN error ELSE @,
                      !.returned = result,
                      !.headersSent = headersSent \/ ~throws,
                      !.writes = IF ~throws /\ ~headersSent
                                 THEN Append(afterSend, sendSuccessEnvelope(result))
                                 ELSE afterSend,
                      !.stage = IF throws THEN "errorHandler" ELSE "done"]
    /\ UNCHANGED <<routeVars, requestVars, callVars, inflight>>

\* errorHandler as it would be without the test of res.headersSent
errorHandler_NoHeadersSentGuard ==
    /\ exchange.stage = "errorHandler"
    /\ exchange' =
         LET status == IF HasStatus(exchange.err) THEN exchange.err.status ELSE 500
         IN  [exchange EXCEPT !.stage = "done", !.headersSent = TRUE,
                              !.writes = Append(@, sendErrorEnvelope(exchange.err, status))]
    /\ UNCHANGED <<routeVars, requestVars, callVars, inflight>>

\* errorHandler as it would be if an error without status were answered 400
errorHandler_Default400 ==
    /\ exchange.stage = "errorHandler"
    /\ exchange' =
         IF exchange.headersSent
         THEN [exchange EXCEPT !.stage = "passedOn"]
         ELSE LET status == IF HasStatus(exchange.err) THEN exchange.err.status ELSE 400
              IN  [exchange EXCEPT !.stage = "done", !.headersSent = TRUE,
                                   !.writes = Append(@, sendErrorEnvelope(exchange.err, status))]
    /\ UNCHANGED <<routeVars, requestVars, callVars, inflight>>

\* errorHandler(err, req, res, next)
errorHandler ==
    /\ exchange.stage = "errorHandler"
    /\ exchange' =
         IF exchange.headersSent
         THEN [exchange EXCEPT !.stage = "passedOn"]
         ELSE LET status == IF HasStatus(exchange.err) THEN exchange.err.status ELSE 500
              IN  [exchange EXCEPT !.stage = "done", !.headersSent = TRUE,
                                   !.writes = Append(@, sendErrorEnvelope(exchange.err, status))]
    /\ UNCHANGED <<routeVars, requestVars, callVars, inflight>>

\* the exchange is over: the response has gone out, or the error went on to
\* the default handler of Express, which writes nothing once headers are sent
Complete ==
    /\ exchange.stage \in ExchangeEnds
    /\ exchange' = NoExchange
    /\ UNCHANGED <<routeVars, requestVars, callVars, inflight>>

NextPipeline ==
    \/ Receive
    \/ RunMiddleware
    \/ RunHandler
    \/ errorHandler
    \/ Complete

SpecPipeline == InitPipeline /\ [][NextPipeline]_vars

(***************************************************************************)
(* Requests in flight at once.  Node runs one callback at a time, and the  *)
(* auth middlewares are synchronous, so each runs to its end in one step;  *)
(* between the steps of one request the steps of another, and the clock,   *)
(* may come in any order.                                                  *)
(***************************************************************************)
\* all three secrets set and different where the model has the values for it,
\* with and without a service secret
ConcurrentConfigs ==
    [port : {3000}, prefix : {<<>>},
     routes : {ObjNode({}, <<>>, "none", <<>>, NoKids)},
     JWT_SECRET : {"k1"}, JWT_REFRESH : {"k2"}, JWT_SERVICE : {NullSecret, "k1"},
     JWT_EXPIRATION : {1}, JWT_REFRESH_EXPIRATION : {2}]

InitConcurrent ==
    /\ config \in ConcurrentConfigs
    /\ Listening
    /\ NoRequestYet
    /\ NoCallYet

\* the times at which the clients logged in: at the start and one tick later
LoginTimes == {0, 1}

\* what the clients hold at time t: the tokens the server issued to user 1 and
\* to the service when they logged in, and text that is no token
ClientTokens(cfg, t) ==
    { r.token : r \in { i \in
        UNION { { issueAccessToken(cfg, t0, 1, NoExtra),
                  issueRefreshToken(cfg, t0, 1, NoExtra),
                  issueServiceToken(cfg, t0, "billing", NoExtra) } :
                t0 \in LoginTimes \cap 0..t } :
        ~i.thrown } } \cup {Malformed}

\* the access and service tokens go into the Authorization header
ClientHeaders(cfg, t) ==
    {NoHeader} \cup {Bearer(tok) : tok \in
                        {k \in ClientTokens(cfg, t) : k.payload.type # "refresh"}}

\* the refresh tokens go into the cookie
ClientCookies(cfg, t) ==
    {Undefined} \cup {tok \in ClientTokens(cfg, t) :
                         tok.payload.type \notin {"access", "service"}}

\* server.middleware[name](req, res, next)
RunMiddlewareNamed(name, cfg, t, rq, response) ==
    CASE name = "auth"            -> auth(cfg, t, rq, response)
      [] name = "authUserOnly"    -> authUserOnly(cfg, t, rq, response)
      [] name = "authServiceOnly" -> authServiceOnly(cfg, t, rq, response)

\* a request arrives on a free connection
ConcurrentArrive ==
    /\ \E c \in Connections, route \in ProtectedRoutes,
          header \in ClientHeaders(config, now), cookie \in ClientCookies(config, now) :
          /\ inflight[c].stage = "idle"
          /\ inflight' = [inflight EXCEPT ![c] =
                 [NoneInFlight EXCEPT
                    !.stage = "middleware",
                    !.req = [NoRequest EXCEPT !.route = route, !.authorization = header,
                                              !.cookie = cookie]]]
    /\ UNCHANGED <<routeVars, requestVars, callVars, exchange>>

\* the middleware as it would be if the response object were one per server,
\* shared by the requests in flight
ConcurrentMiddleware_SharedResponse ==
    /\ \E c \in Connections, other \in Connections :
          /\ other # c
          /\ inflight[c].stage = "middleware"
          /\ LET result == RunMiddlewareNamed(MiddlewareOf(inflight[c].req.route), config,
                                              now, inflight[c].req, inflight[other].res)
             IN  inflight' = [inflight EXCEPT ![c] =
                    [stage |-> IF result.next THEN "handler" ELSE "responded",
                     req |-> result.req, res |-> result.res,
                     nextCalled |-> result.next, ranAt |-> now]]
    /\ UNCHANGED <<routeVars, requestVars, callVars, exchange>>

\* the middleware of the request on one connection runs, on that request and
\* its response and on this.config
ConcurrentMiddleware ==
    /\ \E c \in Connections :
          /\ inflight[c].stage = "middleware"
          /\ LET result == RunMiddlewareNamed(MiddlewareOf(inflight[c].req.route), config,
                                              now, inflight[c].req, inflight[c].res)
             IN  inflight' = [inflight EXCEPT ![c] =
                    [stage |-> IF result.next THEN "handler" ELSE "responded",
                     req |-> result.req, res |-> result.res,
                     nextCalled |-> result.next, ranAt |-> now]]
    /\ UNCHANGED <<routeVars, requestVars, callVars, exchange>>

\* the response of the request on one connection goes out, from the
\* middleware that rejected it or from the handler behind it, and the
\* connection is free again
ConcurrentFinish ==
    /\ \E c \in Connections :
          /\ inflight[c].stage \in {"handler", "responded"}
          /\ inflight' = [inflight EXCEPT ![c] = NoneInFlight]
    /\ UNCHANGED <<routeVars, requestVars, callVars, exchange>>

NextConcurrent ==
    \/ Tick
    \/ ConcurrentArrive
    \/ ConcurrentMiddleware
    \/ ConcurrentFinish

SpecConcurrent == InitConcurrent /\ [][NextConcurrent]_vars

(***************************************************************************)
(* Route trees whose leaves overlap: two leaves that compile to the same   *)
(* method and path, and a placeholder next to a literal segment.           *)
(***************************************************************************)
LeafOne == ObjNode({"method", "handler", "middlewares"}, M_Get, "h1", <<"m1">>, NoKids)

LeafTwo == ObjNode({"method", "handler", "middlewares"}, M_get, "h2", <<"m2">>, NoKids)

Group(kids) == ObjNode({}, <<>>, "none", <<>>, kids)

Entry(key, val) == [key |-> key, val |-> val]

\* the same object with the keys inserted in the opposite order, at every level
RECURSIVE OtherOrder(_)
OtherOrder(node) ==
    [node EXCEPT !.kids = [i \in DOMAIN node.kids |->
        LET e == node.kids[Len(node.kids) + 1 - i]
        IN  Entry(e.key, OtherOrder(e.val))]]

\* { a: .., '/a': .. }, { a: { b: .. }, 'a/b': .. }, { ':id': .., list: .. },
\* { a: .., b: .. }
OverlapDeclared ==
    { Group(<<Entry(<<"a">>, LeafOne), Entry(<<Slash, "a">>, LeafTwo)>>),
      Group(<<Entry(<<"a">>, Group(<<Entry(<<"b">>, LeafOne)>>)),
              Entry(<<"a", Slash, "b">>, LeafTwo)>>),
      Group(<<Entry(<<":id">>, LeafOne), Entry(<<"list">>, LeafTwo)>>),
      Group(<<Entry(<<"a">>, LeafOne), Entry(<<"b">>, LeafTwo)>>) }

OverlapTrees == OverlapDeclared \cup {OtherOrder(tree) : tree \in OverlapDeclared}

\* a server started on one of these trees
InitOverlap ==
    /\ config \in [port : {3000}, prefix : Prefixes, routes : OverlapTrees,
                   JWT_SECRET : {NullSecret}, JWT_REFRESH : {NullSecret},
                   JWT_SERVICE : {NullSecret},
                   JWT_EXPIRATION : {1}, JWT_REFRESH_EXPIRATION : {2}]
    /\ app = ExpressApp(parseRoutes(config.prefix, config.routes, <<>>).app)
    /\ serverInstance = "server"
    /\ phase = "listening"
    /\ startError = NoError
    /\ served = "none"
    /\ NoRequestYet
    /\ NoCallYet

SpecOverlap == InitOverlap /\ [][NextPipeline]_vars

(***************************************************************************)
(* Properties of the route tree compiler.                                  *)
(***************************************************************************)
Started == phase # "constructed"

PortAccepted == startError # "Port must be a valid number"

EqualsIgnoreCase(a, b) ==
    /\ Len(a) = Len(b)
    /\ \A i \in DOMAIN a : LowerChar(a[i]) = LowerChar(b[i])

\* a terminal route: it carries a handler that is a function and a recognised
\* method (or none), and no children
IsLeaf(node) ==
    /\ node.t = "obj"
    /\ "handler" \in node.own
    /\ node.handler \in HandlerFns
    /\ "method" \in node.own => \E m \in validMethods : EqualsIgnoreCase(node.method, m)
    /\ node.kids = NoKids

\* a tree of groups (objects with nothing but keyed children) and leaves
RECURSIVE WellFormed(_)
WellFormed(node) ==
    \/ IsLeaf(node)
    \/ /\ node.t = "obj"
       /\ node.own = {}
       /\ \A i \in DOMAIN node.kids : WellFormed(node.kids[i].val)

\* "/" k1 "/" k2 ... "/" kn
RECURSIVE JoinKeys(_)
JoinKeys(keys) ==
    IF keys = <<>> THEN <<>> ELSE <<Slash>> \o Head(keys) \o JoinKeys(Tail(keys))

\* the leaves below entries, each with the keys from the root down to it
RECURSIVE LeavesOf(_, _)
LeavesOf(entries, ancestors) ==
    IF entries = <<>> THEN <<>>
    ELSE LET chain == Append(ancestors, Head(entries).key)
             node  == Head(entries).val
         IN  (IF IsLeaf(node) THEN <<[chain |-> chain, leaf |-> node]>>
              ELSE LeavesOf(node.kids, chain))
             \o LeavesOf(Tail(entries), ancestors)

BindingIsFor(b, l) ==
    /\ b.path = CollapseSlashes(config.prefix \o JoinKeys(l.chain))
    /\ b.handler = l.leaf.handler
    /\ IF "method" \in l.leaf.own
       THEN EqualsIgnoreCase(b.method, l.leaf.method)
       ELSE b.method = M_post

\* C1: compiling a well-formed tree registers exactly one binding per leaf:
\* its path is the prefix followed by "/"-joined ancestor keys and leaf key with
\* every run of "/" collapsed, its method the declared one compared
\* case-insensitively, or POST when the leaf declares none
C1_OneBindingPerLeaf ==
    (Started /\ PortAccepted /\ WellFormed(config.routes)) =>
        LET leaves == LeavesOf(config.routes.kids, <<>>)
        IN  /\ startError \notin CompileErrors
            /\ app.made
            /\ Len(app.stack) = Len(leaves)
            /\ \A i \in DOMAIN leaves :
                  /\ BindingIsFor(app.stack[i], leaves[i])
                  /\ app.stack[i].method \in validMethods

\* a tree with nested leaves, a separator run to collapse, a declared method in
\* another case and a defaulted method has been compiled
C1_Witness ==
    /\ Started /\ PortAccepted /\ WellFormed(config.routes)
    /\ config.prefix # <<>>
    /\ Len(app.stack) = 2
    /\ \E i \in DOMAIN config.routes.kids :
          /\ ~IsLeaf(config.routes.kids[i].val)
          /\ config.routes.kids[i].val.kids # NoKids
    /\ \E i, j \in DOMAIN app.stack :
          app.stack[i].method = M_get /\ app.stack[j].method = M_post

\* what parseRoutes must refuse: a value that is no object, a handler-carrying
\* object whose handler is no function or whose method is not recognised, or
\* an object without handler that has such a value under one of its keys
RECURSIVE Invalid(_)
Invalid(node) ==
    \/ node.t # "obj"
    \/ /\ node.t = "obj"
       /\ "handler" \in node.own
       /\ \/ node.handler \notin HandlerFns
          \/ /\ "method" \in node.own
             /\ \A m \in validMethods : ~EqualsIgnoreCase(node.method, m)
    \/ /\ node.t = "obj"
       /\ "handler" \notin node.own
       /\ \E i \in DOMAIN ObjectEntries(node) : Invalid(ObjectEntries(node)[i].val)

\* C2: compiling fails with an error, and never silently skips the node, when a
\* node the traversal reaches is neither a valid leaf nor a non-null mapping
C2_InvalidNodeFails ==
    (Started /\ PortAccepted /\ Invalid(config.routes)) =>
        /\ phase = "rejected"
        /\ startError \in CompileErrors
        /\ serverInstance = NoServer

C2_Witness ==
    /\ Started /\ PortAccepted /\ Invalid(config.routes)
    /\ startError = "Invalid method"
    /\ app.stack # <<>>

\* an object with a handler that is a function and a recognised method (or none)
IsRoute(node) ==
    /\ node.t = "obj"
    /\ "handler" \in node.own
    /\ node.handler \in HandlerFns
    /\ "method" \in node.own => \E m \in validMethods : EqualsIgnoreCase(node.method, m)

\* the routes with the keys down to them, children of
\* handler-carrying nodes included
RECURSIVE RoutesOf(_, _)
RoutesOf(entries, ancestors) ==
    IF entries = <<>> THEN <<>>
    ELSE LET chain == Append(ancestors, Head(entries).key)
             node  == Head(entries).val
         IN  (IF IsRoute(node)
              THEN <<[chain |-> chain, leaf |-> node]>> ELSE <<>>)
             \o (IF node.t = "obj" THEN RoutesOf(node.kids, chain) ELSE <<>>)
             \o RoutesOf(Tail(entries), ancestors)

\* C3: a node with its own method/handler and nested child routes compiles to a
\* binding for the node itself and to one binding for each nested child leaf
C3_MixedNodeChildrenRegistered ==
    (Started /\ PortAccepted /\ startError \notin CompileErrors) =>
        LET routes == RoutesOf(config.routes.kids, <<>>)
        IN  \A i \in DOMAIN routes :
               \E j \in DOMAIN app.stack : BindingIsFor(app.stack[j], routes[i])

\* C4: when route-tree compilation throws during start(), start() rejects,
\* listen is never called and serverInstance stays null; the server never
\* listens and serves no request
C4_CompileErrorPreventsStart ==
    startError \in CompileErrors =>
        /\ phase = "rejected"
        /\ serverInstance = NoServer
        /\ served = "none"

C4_Witness ==
    /\ startError = "Invalid route configuration at path"
    /\ phase = "rejected"
    /\ app.made /\ app.stack # <<>>

(***************************************************************************)
(* Properties of the authentication cascade.                               *)
(***************************************************************************)
\* the middleware of the request in flight has run
MiddlewareDone == stage \in {"handler", "responded"} /\ MiddlewareOf(req.route) # "none"

\* the middleware rejected the request with this status
RejectedWith(status) ==
    /\ stage = "responded"
    /\ ~nextCalled
    /\ res.status = status

BearerToken == req.authorization.token

NoPrincipal == ~req.user.set /\ ~req.service.set

\* the original C5: without a Bearer header every variant answers 401, under
\* every configuration of secrets
C5_Original_NoBearerIs401 ==
    (MiddlewareDone /\ req.authorization.scheme # "Bearer") => RejectedWith(401)

\* C5 (amended): a request whose Authorization header is absent or does not
\* start with 'Bearer ' is rejected by every variant and not passed on; the
\* status is 401, except that authServiceOnly answers 500 when no service
\* secret is configured
C5_NoBearerRejected ==
    (MiddlewareDone /\ req.authorization.scheme # "Bearer") =>
        /\ RejectedWith(IF /\ MiddlewareOf(req.route) = "authServiceOnly"
                           /\ config.JWT_SERVICE = NullSecret
                        THEN 500 ELSE 401)
        /\ NoPrincipal
        /\ res.newAccessToken = NoToken

\* a Basic header with a good refresh cookie has been rejected by auth
C5_Witness ==
    /\ MiddlewareDone
    /\ req.route = "profile"
    /\ req.authorization = BasicHeader
    /\ verifyToken(req.cookie, config.JWT_REFRESH, now).type = "refresh"
    /\ config.JWT_SECRET # NullSecret
    /\ RejectedWith(401)

\* what auth read from the bearer token under each secret
ServiceDecoded == verifyToken(BearerToken, config.JWT_SERVICE, now)

UserDecoded == verifyToken(BearerToken, config.JWT_SECRET, now)

RefreshDecoded == verifyToken(req.cookie, config.JWT_REFRESH, now)

AuthDone == MiddlewareDone /\ MiddlewareOf(req.route) = "auth"

\* the original C6: a bearer token that verifies under both the service and
\* the access secret is resolved as a service principal, never a user
C6_Original_BothSecretsIsService ==
    (/\ AuthDone
     /\ req.authorization.scheme = "Bearer"
     /\ ServiceDecoded # NullPayload
     /\ UserDecoded # NullPayload) =>
        req.service.set /\ ~req.user.set

\* C6 (amended): a bearer token that verifies under the service secret with a
\* service name and type 'service' is resolved as a service principal and
\* never as a user principal, also when it verifies under the access secret
C6_ServiceBeforeUser ==
    (/\ AuthDone
     /\ req.authorization.scheme = "Bearer"
     /\ ServiceDecoded.service # NoServiceName
     /\ ServiceDecoded.type = "service") =>
        /\ nextCalled
        /\ req.service.set
        /\ req.service.name = ServiceDecoded.service
        /\ ~req.user.set
        /\ res.newAccessToken = NoToken

\* a service token that the access secret verifies too has gone through auth
C6_Witness ==
    /\ AuthDone
    /\ req.authorization.scheme = "Bearer"
    /\ ServiceDecoded.service # NoServiceName
    /\ ServiceDecoded.type = "service"
    /\ UserDecoded # NullPayload
    /\ req.service.set

\* the bearer token is an access token of this server whose time is up
ExpiredAccessBearer ==
    /\ req.authorization.scheme = "Bearer"
    /\ config.JWT_SECRET # NullSecret
    /\ BearerToken.payload.type = "access"
    /\ jwtVerify(BearerToken, config.JWT_SECRET, now).error = "TokenExpiredError"

ValidRefreshCookie ==
    /\ RefreshDecoded # NullPayload
    /\ RefreshDecoded.type = "refresh"
    /\ RefreshDecoded.user_id # NoUserId

\* C7: an expired access token as bearer with a valid refresh token in the
\* cookie passes auth: next is called, the user principal has the refresh
\* token's subject and the renewed flag, and X-New-Access-Token carries a token
\* that verifies under the access secret, unexpired, of type 'access', for the
\* same subject
C7_Renewal ==
    (AuthDone /\ ExpiredAccessBearer /\ ValidRefreshCookie) =>
        /\ nextCalled
        /\ req.user.set
        /\ req.user.user_id = RefreshDecoded.user_id
        /\ req.user.tokenRefreshed
        /\ ~req.service.set
        /\ res.newAccessToken # NoToken
        /\ LET fresh == jwtVerify(res.newAccessToken, config.JWT_SECRET, now)
           IN  /\ fresh.error = NoError
               /\ fresh.payload.type = "access"
               /\ fresh.payload.user_id = RefreshDecoded.user_id
               /\ fresh.payload.exp > now

\* user 2's expired access token is renewed from user 2's refresh cookie,
\* issued earlier, under secrets that differ
C7_Witness ==
    /\ AuthDone /\ ExpiredAccessBearer /\ ValidRefreshCookie
    /\ config.JWT_SECRET # config.JWT_REFRESH
    /\ BearerToken.payload.user_id = 2
    /\ req.user.user_id = 2
    /\ req.cookie.payload.iat < now
    /\ req.user.tokenRefreshed

\* the bearer token is there and passes neither the service nor the user check
PassesNeither ==
    /\ req.authorization.scheme = "Bearer"
    /\ Truthy(BearerToken)
    /\ ~(ServiceDecoded.service # NoServiceName /\ ServiceDecoded.type = "service")
    /\ ~(UserDecoded.user_id # NoUserId /\ UserDecoded.type = "access")

NoRefreshMessage == "Access token expired and no refresh token provided"

InvalidRefreshMessage == "Invalid refresh token. Please log in again"

CookiePresent == req.cookie # Undefined

\* the original C8: cookie absent -> 401 'expired and no refresh token', cookie
\* untouched; cookie present but not verifying under the refresh secret or not
\* of type 'refresh' -> cookie cleared and 401 'Invalid refresh token'; the
\* cookie is cleared in no other case
C8_Original_RefreshCookieCases ==
    /\ (AuthDone /\ PassesNeither) =>
          /\ ~CookiePresent =>
                /\ RejectedWith(401)
                /\ res.message = NoRefreshMessage
                /\ ~res.cookieCleared
          /\ (CookiePresent /\ (RefreshDecoded = NullPayload \/ RefreshDecoded.type # "refresh")) =>
                /\ RejectedWith(401)
                /\ res.message = InvalidRefreshMessage
                /\ res.cookieCleared
    /\ res.cookieCleared =>
          /\ AuthDone /\ PassesNeither /\ CookiePresent
          /\ RefreshDecoded = NullPayload \/ RefreshDecoded.type # "refresh"

\* C8 (amended): when a non-empty bearer token passes neither check: if the
\* refreshToken cookie is absent or empty the request is rejected 401 'Access
\* token expired and no refresh token provided' and the cookie is left alone;
\* if the cookie is non-empty but does not verify under the refresh secret, or
\* its type is not 'refresh', or it names no subject, the cookie is cleared and
\* the request is rejected 401 'Invalid refresh token. Please log in again'.
\* The cookie is cleared in no other case
C8_RefreshCookieCases ==
    /\ (AuthDone /\ PassesNeither) =>
          /\ ~Truthy(req.cookie) =>
                /\ RejectedWith(401)
                /\ res.message = NoRefreshMessage
                /\ ~res.cookieCleared
          /\ (/\ Truthy(req.cookie)
              /\ \/ RefreshDecoded = NullPayload
                 \/ RefreshDecoded.type # "refresh"
                 \/ RefreshDecoded.user_id = NoUserId) =>
                /\ RejectedWith(401)
                /\ res.message = InvalidRefreshMessage
                /\ res.cookieCleared
    /\ res.cookieCleared =>
          /\ AuthDone /\ PassesNeither /\ Truthy(req.cookie)
          /\ \/ RefreshDecoded = NullPayload
             \/ RefreshDecoded.type # "refresh"
             \/ RefreshDecoded.user_id = NoUserId

\* an access token that the refresh secret verifies sat in the cookie and was
\* cleared
C8_Witness ==
    /\ AuthDone /\ PassesNeither
    /\ RefreshDecoded # NullPayload
    /\ RefreshDecoded.type = "access"
    /\ RefreshDecoded.user_id # NoUserId
    /\ res.cookieCleared
    /\ res.message = InvalidRefreshMessage

\* the bearer token is a refresh token the refresh secret verifies
ValidRefreshBearer ==
    /\ req.authorization.scheme = "Bearer"
    /\ LET decoded == verifyToken(BearerToken, config.JWT_REFRESH, now)
       IN  decoded.user_id # NoUserId /\ decoded.type = "refresh"

\* C9: auth never verifies the bearer token against the refresh secret; only a
\* refresh token from the cookie triggers renewal, and a valid refresh token
\* sent as bearer with no cookie is rejected with 401
C9_BearerNeverRefreshes ==
    /\ <<"bearer", "JWT_REFRESH">> \notin verified
    /\ (AuthDone /\ ValidRefreshBearer /\ ~Truthy(req.cookie)) =>
          /\ RejectedWith(401)
          /\ NoPrincipal
          /\ res.newAccessToken = NoToken
    /\ (AuthDone /\ res.newAccessToken # NoToken) => ValidRefreshCookie

\* a refresh token that the access secret verifies too came as bearer, with
\* no cookie
C9_Witness ==
    /\ AuthDone /\ ValidRefreshBearer
    /\ req.cookie = Undefined
    /\ config.JWT_REFRESH = config.JWT_SECRET
    /\ UserDecoded # NullPayload
    /\ RejectedWith(401)

\* C10: once a refresh token is on the deny-list, auth renews no later request
\* on the strength of it
C10_RevokedNeverRenews ==
    (stage = "handler" /\ nextCalled /\ req.user.tokenRefreshed) =>
        req.cookie \notin revokedTokens

UserOnlyDone == MiddlewareDone /\ MiddlewareOf(req.route) = "authUserOnly"

\* the bearer token verifies under the access secret with a subject id and
\* type 'access'
AccessBearer ==
    /\ req.authorization.scheme = "Bearer"
    /\ UserDecoded.user_id # NoUserId
    /\ UserDecoded.type = "access"

\* C11: authUserOnly accepts a request only when its bearer token verifies
\* under the access secret with type 'access' and a subject id, rejects with
\* 401 in every other case, and never renews: it issues no access token, sets
\* no X-New-Access-Token and leaves the refresh cookie alone, also when the
\* cookie holds a valid refresh token
C11_UserOnlyNoRenewal ==
    UserOnlyDone =>
        /\ nextCalled <=> AccessBearer
        /\ nextCalled =>
              /\ req.user.set
              /\ req.user.user_id = UserDecoded.user_id
              /\ ~req.user.tokenRefreshed
        /\ ~nextCalled => RejectedWith(401) /\ NoPrincipal
        /\ ~req.service.set
        /\ res.newAccessToken = NoToken
        /\ ~res.cookieCleared
        /\ <<"cookie", "JWT_REFRESH">> \notin verified

\* an expired access token with a valid refresh cookie has been rejected by
\* authUserOnly
C11_Witness ==
    /\ UserOnlyDone
    /\ ExpiredAccessBearer
    /\ ValidRefreshCookie
    /\ RejectedWith(401)

ServiceOnlyDone == MiddlewareDone /\ MiddlewareOf(req.route) = "authServiceOnly"

ServiceConfigured == config.JWT_SERVICE # NullSecret

\* the bearer token verifies under the service secret with type 'service'
ServiceBearer ==
    /\ req.authorization.scheme = "Bearer"
    /\ ServiceDecoded # NullPayload
    /\ ServiceDecoded.type = "service"

\* C12: authServiceOnly rejects with 500 when no service secret is configured;
\* otherwise with 401 when the Authorization header is absent or does not start
\* with 'Bearer '; with 403 when a bearer token does not verify under the
\* service secret or is not of type 'service' (an empty token after 'Bearer '
\* included); and it accepts, setting the service principal and calling next,
\* only a token that verifies under the service secret with type 'service'
C12_ServiceOnlyStatuses ==
    ServiceOnlyDone =>
        /\ ~ServiceConfigured => RejectedWith(500)
        /\ (ServiceConfigured /\ req.authorization.scheme # "Bearer") => RejectedWith(401)
        /\ (ServiceConfigured /\ req.authorization.scheme = "Bearer" /\ ~ServiceBearer)
              => RejectedWith(403)
        /\ nextCalled =>
              /\ ServiceConfigured /\ ServiceBearer
              /\ req.service.set
              /\ req.service.name = ServiceDecoded.service
        /\ ~nextCalled => NoPrincipal
        /\ ~req.user.set

\* with a service secret configured, an access token that the service secret
\* verifies has been refused with 403
C12_Witness ==
    /\ ServiceOnlyDone
    /\ ServiceConfigured
    /\ req.authorization.scheme = "Bearer"
    /\ ServiceDecoded.type = "access"
    /\ RejectedWith(403)

(***************************************************************************)
(* Properties of the token methods.                                        *)
(***************************************************************************)
\* issueAccessToken(id) returned a token and verifyToken has just been given
\* that token, before its expiry
AccessRoundTrip ==
    /\ call.op = "issueAccessToken"
    /\ call.additionalPayload = NoExtra
    /\ ~call.outcome.thrown
    /\ check.done
    /\ check.token = call.outcome.token
    /\ check.t < call.outcome.token.payload.exp

\* the original C13: the token issueAccessToken(id) returns verifies under the
\* access secret as subject id with type 'access', and verifying it with the
\* refresh secret or with the service secret yields null
C13_Original_AccessRoundTrip ==
    AccessRoundTrip =>
        /\ verifyToken(check.token, config.JWT_SECRET, check.t).user_id = call.user_id
        /\ verifyToken(check.token, config.JWT_SECRET, check.t).type = "access"
        /\ verifyToken(check.token, config.JWT_REFRESH, check.t) = NullPayload
        /\ verifyToken(check.token, config.JWT_SERVICE, check.t) = NullPayload

\* C13 (amended): the token issueAccessToken(id) returns verifies under the
\* access secret as subject id with type 'access'; verifying it with a secret
\* that differs from the access secret yields null, and verifying it with a
\* refresh or service secret equal to the access secret yields the same claims
C13_AccessRoundTrip ==
    AccessRoundTrip =>
        /\ check.secret = config.JWT_SECRET =>
              /\ check.result.user_id = call.user_id
              /\ check.result.type = "access"
              /\ check.result.iat = call.t
        /\ check.secret # config.JWT_SECRET => check.result = NullPayload

\* user 2's access token has been verified with a refresh secret that differs
\* from the access secret
C13_Witness ==
    /\ AccessRoundTrip
    /\ call.user_id = 2
    /\ config.JWT_REFRESH # NullSecret
    /\ config.JWT_REFRESH # config.JWT_SECRET
    /\ check.secret = config.JWT_REFRESH
    /\ check.result = NullPayload

\* C14: no token of one kind is accepted in the role of another, also when
\* the secrets coincide: a service principal comes only from a bearer token of
\* type 'service', a user principal that auth or authUserOnly took from the
\* bearer token only from a token of type 'access', and renewal only from a
\* cookie token of type 'refresh'
C14_TypeIsLoadBearing ==
    MiddlewareDone =>
        /\ req.service.set =>
              /\ nextCalled
              /\ BearerToken.payload.type = "service"
              /\ BearerToken.sig = config.JWT_SERVICE
        /\ (req.user.set /\ ~req.user.tokenRefreshed) =>
              /\ nextCalled
              /\ BearerToken.payload.type = "access"
              /\ BearerToken.sig = config.JWT_SECRET
        /\ (req.user.tokenRefreshed \/ res.newAccessToken # NoToken) =>
              /\ MiddlewareOf(req.route) = "auth"
              /\ req.cookie.payload.type = "refresh"
              /\ req.cookie.sig = config.JWT_REFRESH
        /\ nextCalled => req.user.set \/ req.service.set

\* with the access and refresh secrets equal, an unexpired refresh token sent
\* as bearer has its signature validated by the access secret and is refused
\* by authUserOnly
C14_Witness ==
    /\ UserOnlyDone
    /\ config.JWT_SECRET = config.JWT_REFRESH
    /\ req.authorization.scheme = "Bearer"
    /\ UserDecoded.type = "refresh"
    /\ UserDecoded.user_id # NoUserId
    /\ RejectedWith(401)

\* the secret an issue method signs with
SecretFor(op) ==
    CASE op = "issueAccessToken"  -> config.JWT_SECRET
      [] op = "issueRefreshToken" -> config.JWT_REFRESH
      [] op = "issueServiceToken" -> config.JWT_SERVICE

\* the error an issue method throws without its secret
ConfigurationError(op) ==
    CASE op = "issueAccessToken"  -> "JWT_SECRET not configured"
      [] op = "issueRefreshToken" -> "JWT_REFRESH not configured"
      [] op = "issueServiceToken" -> "JWT_SERVICE secret not configured"

\* the error an issue method throws without its identity argument
ValidationError(op) ==
    CASE op = "issueAccessToken"  -> "user_id is required for token generation"
      [] op = "issueRefreshToken" -> "user_id is required for refresh token generation"
      [] op = "issueServiceToken" -> "serviceName is required for service token generation"

IdentityAbsent ==
    IF call.op = "issueServiceToken" THEN call.serviceName = NoServiceName
    ELSE call.user_id = NoUserId

C16_VerifyNeverThrows ==
    check.done =>
        /\ ~check.thrown
        /\ check.result = NullPayload \/ check.result = check.token.payload
        /\ (~Truthy(check.token) \/ check.secret = NullSecret) => check.result = NullPayload
        /\ check.t >= check.token.payload.exp => check.result = NullPayload
        /\ check.token = Malformed => check.result = NullPayload
        /\ check.token.sig # check.secret => check.result = NullPayload
        /\ check.logged =>
              /\ check.result = NullPayload
              /\ jwtVerify(check.token, check.secret, check.t).error \notin ExpectedErrors

\* a token that jwt.verify refuses with an unexpected error was verified with
\* a configured secret: the error was logged and null returned
C16_Witness ==
    /\ check.done
    /\ check.token = NotYetValid
    /\ check.secret # NullSecret
    /\ check.logged
    /\ ~check.thrown
    /\ check.result = NullPayload

\* a token of the server verified after its expiry gave null
C16_ExpiredWitness ==
    /\ check.done
    /\ check.token.sig = check.secret
    /\ check.secret # NullSecret
    /\ check.token.payload.type = "access"
    /\ check.t >= check.token.payload.exp
    /\ check.result = NullPayload

(***************************************************************************)
(* Properties of the request pipeline.                                     *)
(***************************************************************************)
\* the responses the framework wrote: sendSuccess and sendError
FrameworkWrites ==
    SelectSeq(exchange.writes, LAMBDA w : w.by \in {"sendSuccess", "sendError"})

WrittenBy(by) == \E i \in DOMAIN exchange.writes : exchange.writes[i].by = by

HandlerDid(h) ==
    /\ exchange.did # <<>>
    /\ exchange.ran[Len(exchange.ran)] = exchange.binding.handler
    /\ exchange.did[Len(exchange.did)] = h

\* C17: the framework writes at most one response for a request handled by a
\* compiled binding: when the handler has sent a response itself the automatic
\* success send is skipped, and when it sent a response and then threw, the
\* error path writes no second response
C17_AtMostOneResponse ==
    /\ Len(FrameworkWrites) <= 1
    /\ Len(exchange.writes) <= 1
    /\ (HandlerDid("sends") \/ HandlerDid("sendsThenThrows")) => ~WrittenBy("sendSuccess")
    /\ HandlerDid("sendsThenThrows") => ~WrittenBy("sendError")
    /\ exchange.stage = "done" => Len(exchange.writes) = 1

\* the handler sent a response and then threw; errorHandler passed the error
\* on and the handler's response is the only one
C17_Witness ==
    /\ exchange.stage = "passedOn"
    /\ HandlerDid("sendsThenThrows")
    /\ exchange.writes = <<OwnResponse("handler")>>

\* the handler threw before any response had gone out, and the exchange is over
HandlerFailed ==
    /\ exchange.stage = "done"
    /\ HandlerDid("throws")
    /\ "middleware" \notin {exchange.writes[i].by : i \in DOMAIN exchange.writes}

\* the response is the error envelope of the failure, sent with this status
EnvelopeWith(status) ==
    exchange.writes = <<Written("sendError", status, errorResponse(exchange.err))>>

\* the original C18: when a handler throws a failure object the response is
\* the error envelope with the failure's status if it carries one, and with
\* status 400 if it carries none
C18_Original_ThrownStatusDefault400 ==
    HandlerFailed =>
        EnvelopeWith(IF HasStatus(exchange.err) THEN exchange.err.status ELSE 400)

\* C18 (amended): when a handler throws a failure object and no response has
\* gone out, the response is the error envelope with the failure's status if
\* it carries one, and with status 500 if it carries none
C18_ThrownStatusDefault500 ==
    HandlerFailed =>
        EnvelopeWith(IF HasStatus(exchange.err) THEN exchange.err.status ELSE 500)

\* the handler threw an error without a status and the envelope went out
\* with 500
C18_Witness ==
    /\ HandlerFailed
    /\ exchange.err = [message |-> "boom"]
    /\ exchange.writes[1].status = 500
    /\ exchange.writes[1].body.error.message = "boom"

\* errorHandler has answered with sendError(res, err, status)
ErrorSent ==
    /\ exchange.stage = "done"
    /\ exchange.binding # NoBinding
    /\ WrittenBy("sendError")

SentBody == exchange.writes[Len(exchange.writes)].body

DefaultMessage == "An error occurred"

ExtraOf(error) == IF "extra" \in DOMAIN error THEN error.extra ELSE <<>>

\* the original C19: the body of every response of sendError is {error: {...}},
\* whose message is the error's own message, or a default when it has none,
\* which carries field exactly when the error has one, and which carries the
\* error's extra fields alongside
C19_Original_ErrorEnvelope ==
    ErrorSent =>
        /\ DOMAIN SentBody = {"error"}
        /\ SentBody.error.message =
              IF HasText(exchange.err, "message") THEN exchange.err.message
              ELSE DefaultMessage
        /\ "field" \in DOMAIN SentBody.error <=> HasText(exchange.err, "field")
        /\ HasText(exchange.err, "field") => SentBody.error.field = exchange.err.field
        /\ \A k \in DOMAIN ExtraOf(exchange.err) :
              k \in DOMAIN SentBody.error /\ SentBody.error[k] = ExtraOf(exchange.err)[k]

\* C19 (amended): the body of every response of sendError is {error: {...}}
\* holding exactly message, field when there is one, and the keys of the
\* error's extra; the extra fields are spread last, so they are carried
\* unchanged and an extra key named message or field replaces the error's own;
\* otherwise message is the error's own message, or 'An error occurred' when
\* it has none, and field is there exactly when the error has a non-empty one
C19_ErrorEnvelope ==
    ErrorSent =>
        LET error == exchange.err
            extra == ExtraOf(error)
            sent  == SentBody.error
        IN  /\ DOMAIN SentBody = {"error"}
            /\ DOMAIN sent = {"message"} \cup DOMAIN extra
                              \cup (IF HasText(error, "field") THEN {"field"} ELSE {})
            /\ \A k \in DOMAIN extra : sent[k] = extra[k]
            /\ "message" \notin DOMAIN extra =>
                  sent.message = IF HasText(error, "message") THEN error.message
                                 ELSE DefaultMessage
            /\ ("field" \notin DOMAIN extra /\ HasText(error, "field")) =>
                  sent.field = error.field
            /\ sent.message # ""

\* the example's error with a field and extra fields was answered: message,
\* field and the extra code side by side, status 422
C19_Witness ==
    /\ ErrorSent
    /\ HasText(exchange.err, "message")
    /\ exchange.err.message = "Deliberate error for testing"
    /\ exchange.writes[1].status = 422
    /\ SentBody.error = [message |-> "Deliberate error for testing",
                          field |-> "test_field", code |-> "TEST_ERROR"]

\* the leaf the server was started with
DeclaredLeaf == config.routes.kids[1].val

\* what a matching request is to run, in order: the leaf's middlewares as it
\* declares them, then its handler
DeclaredChain ==
    (IF "middlewares" \in DeclaredLeaf.own THEN DeclaredLeaf.middlewares ELSE <<>>)
    \o <<DeclaredLeaf.handler>>

CalledNext(i) == exchange.did[i] \in {"next", "respondAndNext"}

\* C20: a matching request runs the leaf's middlewares in their declared
\* order, each one only after the one before it called next; the handler runs
\* only after every middleware has called next; and after a middleware that
\* answers or fails without calling next, no later middleware and not the
\* handler runs
C20_ChainInOrder ==
    exchange.binding # NoBinding =>
        /\ Len(exchange.ran) <= Len(DeclaredChain)
        /\ Len(exchange.did) = Len(exchange.ran)
        /\ \A i \in DOMAIN exchange.ran : exchange.ran[i] = DeclaredChain[i]
        /\ \A i \in DOMAIN exchange.ran : i < Len(exchange.ran) => CalledNext(i)
        /\ Len(exchange.ran) = Len(DeclaredChain) =>
              \A i \in 1..(Len(DeclaredChain) - 1) : CalledNext(i)
        /\ \A i \in DOMAIN exchange.ran :
              (i < Len(DeclaredChain) /\ ~CalledNext(i)) =>
                  /\ i = Len(exchange.ran)
                  /\ exchange.stage \in {"done", "errorHandler", "passedOn"}
        /\ exchange.stage \in {"chain", "handler"} =>
              \A i \in DOMAIN exchange.ran : CalledNext(i)

\* of two declared middlewares the first called next and the second answered
\* by itself: the exchange is over and the handler never ran
C20_Witness ==
    /\ DeclaredChain = <<"m1", "m2", "h1">>
    /\ exchange.ran = <<"m1", "m2">>
    /\ exchange.did = <<"next", "respond">>
    /\ exchange.stage = "done"

\* the handler came back without having sent anything, no middleware had
\* sent anything before it, and the exchange is over
HandlerReturned ==
    /\ exchange.stage = "done"
    /\ HandlerDid("returns")
    /\ ~WrittenBy("middleware")

\* the original C21: when a handler completes without having sent a response
\* the framework sends status 200 with a body equal to the handler's return
\* value, for every value the handler can return
C21_Original_ReturnValueVerbatim ==
    HandlerReturned => exchange.writes = <<Written("sendSuccess", 200, exchange.returned)>>

\* C21 (amended): when a handler completes without having sent a response the
\* framework sends status 200 with a body equal to the handler's return value,
\* with no wrapping key, for every value except undefined; for a handler that
\* returns nothing the body is the empty object
C21_ReturnValueVerbatim ==
    HandlerReturned =>
        /\ Len(exchange.writes) = 1
        /\ exchange.writes[1].by = "sendSuccess"
        /\ exchange.writes[1].status = 200
        /\ exchange.returned # JsUndefined => exchange.writes[1].body = exchange.returned
        /\ exchange.returned = JsUndefined => exchange.writes[1].body = EmptyObject

\* a handler returned an object that has a key named error, and the object
\* went out as it is with status 200
C21_Witness ==
    /\ HandlerReturned
    /\ exchange.returned = [error |-> [message |-> "not an error"]]
    /\ exchange.writes = <<Written("sendSuccess", 200, [error |-> [message |-> "not an error"]])>>

(***************************************************************************)
(* Further properties of the authentication cascade.                       *)
(***************************************************************************)
\* auth has reached the renewal of the access token, which cannot be issued
\* because the access secret is not configured
RenewalCannotIssue ==
    /\ AuthDone
    /\ PassesNeither
    /\ ValidRefreshCookie
    /\ config.JWT_SECRET = NullSecret

\* C22: in the renewal path of auth, when issuing the new access token fails
\* the request is rejected with status 500: next is not called, no
\* X-New-Access-Token header is set and no user principal is attached
C22_RenewalFailureIs500 ==
    RenewalCannotIssue =>
        /\ RejectedWith(500)
        /\ res.message = "Failed to refresh access token"
        /\ res.newAccessToken = NoToken
        /\ ~res.cookieCleared
        /\ ~req.user.set
        /\ ~req.service.set

\* a server without access secret got text that is no token as bearer and a
\* refresh token of user 2 as cookie, and answered 500
C22_Witness ==
    /\ RenewalCannotIssue
    /\ BearerToken = Malformed
    /\ RefreshDecoded.user_id = 2
    /\ res.status = 500
    /\ stage = "responded"

\* auth rejected the request
AuthRejected == AuthDone /\ stage = "responded" /\ ~nextCalled

\* the bearer token is text that is no token, or a token signed with a key
\* that is none of the server's: jwt.verify refuses it, and not for its age
MalformedOrWronglySigned ==
    /\ req.authorization.scheme = "Bearer"
    /\ BearerToken \in {Malformed} \cup Forged
    /\ config.JWT_SECRET # NullSecret
    /\ jwtVerify(BearerToken, config.JWT_SECRET, now).error = "JsonWebTokenError"

\* C23: the message of a rejection by auth tells a missing, an expired and an
\* invalid token apart: a bearer token that is malformed or wrongly signed,
\* and not expired, is never rejected with the message that an expired token
\* gets
C23_InvalidNeverReportedExpired ==
    (AuthRejected /\ MalformedOrWronglySigned) => res.message # NoRefreshMessage

(***************************************************************************)
(* Properties of requests in flight at once.                               *)
(***************************************************************************)
\* the request on connection c as it arrived: nothing attached to it yet
AsArrived(c) ==
    [NoRequest EXCEPT !.route = inflight[c].req.route,
                      !.authorization = inflight[c].req.authorization,
                      !.cookie = inflight[c].req.cookie]

\* the middleware of the request on connection c has run
RanOn(c) == inflight[c].stage \in {"handler", "responded"}

\* the request on connection c came with an access token that was out of
\* date when its middleware ran, and with a refresh token that was not
ExpiredWithRefresh(c) ==
    LET r == inflight[c]
    IN  /\ r.req.route = "profile"
        /\ r.req.authorization.scheme = "Bearer"
        /\ r.req.authorization.token.payload.type = "access"
        /\ jwtVerify(r.req.authorization.token, config.JWT_SECRET, r.ranAt).error
               = "TokenExpiredError"
        /\ r.req.cookie.payload.type = "refresh"
        /\ jwtVerify(r.req.cookie, config.JWT_REFRESH, r.ranAt).error = NoError

\* the request on connection c was renewed with a token issued for it
RenewedOn(c) ==
    LET r == inflight[c]
        fresh == jwtVerify(r.res.newAccessToken, config.JWT_SECRET, r.ranAt)
    IN  /\ r.nextCalled
        /\ r.req.user.set
        /\ r.req.user.tokenRefreshed
        /\ r.req.user.user_id = r.req.cookie.payload.user_id
        /\ fresh.error = NoError
        /\ fresh.payload.type = "access"
        /\ fresh.payload.iat = r.ranAt

SamePair(i, j) ==
    /\ app.stack[i].method = app.stack[j].method
    /\ app.stack[i].path = app.stack[j].path

\* the request of the exchange asks for the method and path of binding j
AsksFor(j) ==
    /\ exchange.binding # NoBinding
    /\ exchange.method = app.stack[j].method
    /\ exchange.path = app.stack[j].path

\* what has run for the request of the exchange
Ran == {exchange.ran[k] : k \in DOMAIN exchange.ran}

\* C25: when two leaves compile to the same method and full path, compilation
\* does not fail, both are registered in traversal order, and every matching
\* request is handled by the leaf registered first: neither the handler nor a
\* middleware of the later one runs
C25_FirstRegistrationWins ==
    LET leaves == LeavesOf(config.routes.kids, <<>>)
    IN  /\ ~parseRoutes(config.prefix, config.routes, <<>>).thrown
        /\ Len(app.stack) = Len(leaves)
        /\ \A i \in DOMAIN leaves : BindingIsFor(app.stack[i], leaves[i])
        /\ \A i, j \in DOMAIN leaves :
              (i < j /\ SamePair(i, j) /\ AsksFor(j)
                 /\ \A h \in 1..(i - 1) : ~SamePair(h, j)) =>
                 /\ exchange.binding.handler = leaves[i].leaf.handler
                 /\ exchange.binding.middlewares = leaves[i].leaf.middlewares
                 /\ leaves[j].leaf.handler \notin Ran
                 /\ \A k \in DOMAIN leaves[j].leaf.middlewares :
                       leaves[j].leaf.middlewares[k] \notin Ran

\* the keys 'a' and '/a' were both registered as GET /a; a request for it
\* went through the middleware and the handler of 'a', and is answered
C25_Witness ==
    /\ config.routes.kids[1].key = <<"a">>
    /\ config.routes.kids[2].key = <<Slash, "a">>
    /\ Len(app.stack) = 2
    /\ SamePair(1, 2)
    /\ AsksFor(2)
    /\ exchange.stage = "done"
    /\ exchange.ran = <<"m1", "h1">>

\* a request has been routed
Routed == exchange.stage # "idle"

\* the bindings the request of the exchange matches, as registered
MatchedHere == Matching(app.stack, exchange.method, exchange.path)

\* the bindings it would match had the sibling keys been declared in the
\* other order
MatchedThere ==
    Matching(parseRoutes(config.prefix, OtherOrder(config.routes), <<>>).app,
             exchange.method, exchange.path)

C27_OnePrincipal ==
    MiddlewareDone =>
        /\ ~(req.user.set /\ req.service.set)
        /\ req.service.set => req.user = NoUser
        /\ req.user.set => req.service = NoService
        /\ req.user.tokenRefreshed =>
              /\ req.user.set
              /\ MiddlewareOf(req.route) = "auth"
              /\ PassesNeither
              /\ ValidRefreshCookie
              /\ req.user.user_id = RefreshDecoded.user_id
              /\ res.newAccessToken # NoToken

\* a service token went through auth together with a valid refresh cookie,
\* and the request carries the service principal alone
C27_Witness ==
    /\ AuthDone
    /\ stage = "handler"
    /\ req.service.set
    /\ req.service.name = "billing"
    /\ ValidRefreshCookie
    /\ req.user = NoUser

\* the statuses the auth variants reject with
RejectionStatuses == {401, 403, 500}

\* C28: each invocation of auth, authUserOnly or authServiceOnly ends in one
\* of two ways: it calls next exactly once and writes no response, or it
\* writes exactly one error response and never calls next; and whenever it
\* rejects, no principal has been attached to the request
C28_NextOrOneResponse ==
    MiddlewareDone =>
        /\ nextCalls \in {0, 1}
        /\ nextCalled <=> nextCalls = 1
        /\ (nextCalls = 1 /\ stage = "handler") =>
              /\ res.sends = 0
              /\ res.status = 0
              /\ res.message = ""
        /\ nextCalls = 0 =>
              /\ stage = "responded"
              /\ res.sends = 1
              /\ res.status \in RejectionStatuses
              /\ res.message # ""
              /\ req.user = NoUser
              /\ req.service = NoService

\* authServiceOnly got a header that is no bearer token: one response, 401,
\* and next was not called
C28_Witness ==
    /\ ServiceOnlyDone
    /\ config.JWT_SERVICE # NullSecret
    /\ req.authorization = BasicHeader
    /\ nextCalls = 0
    /\ res.sends = 1
    /\ res.status = 401

(***************************************************************************)
(* Further properties of the token codec.                                  *)
(***************************************************************************)
\* the type an issue method writes into the payload
TypeOf(op) ==
    CASE op = "issueAccessToken"  -> "access"
      [] op = "issueRefreshToken" -> "refresh"
      [] op = "issueServiceToken" -> "service"

\* an issue method has returned a token
Issued == call.op # "none" /\ ~call.outcome.thrown

IssuedClaims == call.outcome.token.payload

\* the original C29: the type claim and the identity claim of an issued
\* token are fixed by the issuing function whatever extra claims are passed:
\* extra claims cannot override type, user_id or service
C29_Original_ExtraCannotOverride ==
    Issued =>
        /\ IssuedClaims.type = TypeOf(call.op)
        /\ call.op # "issueServiceToken" => IssuedClaims.user_id = call.user_id
        /\ call.op = "issueServiceToken" => IssuedClaims.service = call.serviceName

\* C29 (amended): the type claim and the identity claim of an issued token
\* are the ones the issuing function sets when the extra claims do not name
\* them; an extra claim named type, user_id or service is spread last and
\* replaces the function's value
C29_ExtraOverrides ==
    Issued =>
        LET extra == call.additionalPayload
        IN  /\ IssuedClaims.type =
                  IF "type" \in extra.sets THEN extra.type ELSE TypeOf(call.op)
            /\ IssuedClaims.user_id =
                  IF "user_id" \in extra.sets THEN extra.user_id
                  ELSE IF call.op = "issueServiceToken" THEN NoUserId ELSE call.user_id
            /\ IssuedClaims.service =
                  IF "service" \in extra.sets THEN extra.service
                  ELSE IF call.op = "issueServiceToken" THEN call.serviceName
                  ELSE NoServiceName
            /\ IssuedClaims.iat = call.t

\* issueAccessToken(1, { type: 'refresh' }) returned a token of type
\* 'refresh' for user 1, signed with the access secret
C29_Witness ==
    /\ Issued
    /\ call.op = "issueAccessToken"
    /\ call.user_id = 1
    /\ call.additionalPayload.sets = {"type"}
    /\ IssuedClaims.type = "refresh"
    /\ IssuedClaims.user_id = 1
    /\ call.outcome.token.sig = config.JWT_SECRET

(***************************************************************************)
(* The renewal path of auth and the bearer token.                          *)
(***************************************************************************)
\* auth let the request through as the subject of the refresh cookie
AcceptedAsCookieSubject ==
    /\ nextCalled
    /\ req.user.set
    /\ req.user.user_id = RefreshDecoded.user_id
    /\ req.user.tokenRefreshed
    /\ req.service = NoService
    /\ res.newAccessToken # NoToken

\* the original C30: auth enters the renewal path for every bearer token that
\* fails both the service and the user check, not only for an expired one: a
\* request with any non-empty bearer string plus a valid refresh cookie is
\* accepted as the refresh token's subject, whatever subject the bearer named
C30_Original_AnyBearerRenews ==
    (AuthDone /\ PassesNeither /\ ValidRefreshCookie) => AcceptedAsCookieSubject

\* C30 (amended): auth enters the renewal path for every bearer token that
\* fails both the service and the user check, not only for an expired one: on
\* a server with an access secret a request with any such non-empty bearer
\* string plus a valid refresh cookie is accepted as the refresh token's
\* subject, whatever subject the bearer named; on a server without access
\* secret the renewal fails and the request is rejected with 500
C30_AnyBearerRenews ==
    (AuthDone /\ PassesNeither /\ ValidRefreshCookie) =>
        /\ config.JWT_SECRET # NullSecret => AcceptedAsCookieSubject
        /\ config.JWT_SECRET = NullSecret => RejectedWith(500) /\ NoPrincipal
        /\ verified = {<<"bearer", "JWT_SECRET">>, <<"cookie", "JWT_REFRESH">>}
                       \cup (IF config.JWT_SERVICE # NullSecret
                             THEN {<<"bearer", "JWT_SERVICE">>} ELSE {})

\* a token for user 1 signed with a key that is not the server's, and not
\* expired, came with the refresh cookie of user 2: the request went through
\* as user 2
C30_Witness ==
    /\ AuthDone /\ PassesNeither /\ ValidRefreshCookie
    /\ BearerToken \in Forged
    /\ BearerToken.payload.user_id = 1
    /\ BearerToken.payload.exp > now
    /\ config.JWT_SECRET # NullSecret
    /\ RefreshDecoded.user_id = 2
    /\ req.user.user_id = 2
    /\ req.user.tokenRefreshed
    /\ nextCalled

====
